---- MODULE Spec2Model ----
(***************************************************************************)
(* Model of the YouTube video extractor (main.py, extract_from_csv.py):    *)
(*   - the sequential batch loops of POST /transcript, POST /transcript/csv*)
(*     POST /transcript/csv-save and the command line script (Spec);       *)
(*   - the VTT parser inside download_subtitle_vtt (VttSpec);              *)
(*   - remove_vtt_tags on its own, over a larger set of lines (TagSpec);   *)
(*   - the retry loops of get_video_info and download_subtitle_vtt, called *)
(*     directly with any max_retries (RetrySpec);                          *)
(*   - one call of extract_video_data: get_video_info, get_transcript with *)
(*     both backends, the subtitle downloads (ExtractSpec);                *)
(*   - get_comments (CommentsSpec);                                        *)
(*   - extract_video_id applied once and twice (IdSpec);                   *)
(*   - the URL column of an uploaded CSV (CsvSpec).                        *)
(*                                                                         *)
(* Python strings are sequences of one-character strings (URLs: sequences  *)
(* of URL tokens, none of which overlaps a marker the code searches for).  *)
(* An Optional value is None (the empty tuple) or Some(x) (a 1-tuple).     *)
(* Times are integers in milliseconds, sleeps are integers in seconds.     *)
(***************************************************************************)
EXTENDS Integers, Sequences, FiniteSets, TLC

VARIABLES
    \* ---- batch loop ----
    endpoint,        \* which of the four batch loops runs
    urls,            \* the URL list the loop iterates (request.video_urls / urls)
    upstream,        \* environment: the answers YouTube may give for each URL
    pc,              \* position of the handler
    idx,             \* enumerate(urls, 1) index of the current item
    pending,         \* what extract_video_data returned or raised for item idx
    results,         \* the results list
    sleeps,          \* history: every time.sleep of the loop, in order
    calls,           \* history: every extract_video_data call, in order
    status,          \* the outcome of the handler: 0 (none yet), 200, 400, 1 (sys.exit(1))
    \* ---- VTT parser ----
    vtt_content,     \* response.text
    lines,           \* vtt_content.split('\n')
    i,               \* the parser's line index (1-based here)
    texts,           \* list of cue texts
    transcript_list, \* list of cues
    vtt_result,      \* the dict download_subtitle_vtt returns
    vpc,             \* position of the parser
    timing_seen,     \* history: the line numbers handled as timing lines, in order
    \* ---- remove_vtt_tags ----
    tag_in,          \* the argument of remove_vtt_tags
    tag_out,         \* its result
    tpc,             \* position
    \* ---- the retry loops of get_video_info and download_subtitle_vtt ----
    fn,              \* the function whose loop runs
    max_retries,     \* its max_retries argument
    attempt,         \* the loop variable of for attempt in range(max_retries)
    rpc,             \* position of the loop
    waits,           \* history: every time.sleep(wait_time) of the call, in order
    fetches,         \* history: the attempt number of every fetch made, in order
    last_error,      \* the failure of the latest fetch
    outcome,         \* what the call returned or raised
    \* ---- extract_video_data and get_transcript ----
    req_url,         \* the video_url argument of extract_video_data
    languages,       \* the preferred languages
    yta,             \* environment: what youtube-transcript-api does
    ydl_info,        \* environment: what yt-dlp's extract_info gives get_transcript
    gpc,             \* position of extract_video_data / get_transcript
    video_info,      \* what get_video_info returned
    cand,            \* index of the subtitle entry being downloaded
    delays,          \* history: the sleeps before each subtitle download (ms)
    transcript_ret,  \* the transcript_data that get_transcript returned
    response,        \* what extract_video_data returned or raised
    \* ---- get_comments ----
    max_comments,    \* the argument of get_comments
    supplied,        \* environment: info['comments'] as the extractor supplied it
    comments,        \* the comments list being built
    cidx,            \* index of the next supplied comment
    cpc,             \* position of get_comments
    cresult,         \* what get_comments returned or raised
    \* ---- extract_video_id ----
    id_in,           \* the argument of extract_video_id
    id_once,         \* extract_video_id(id_in)
    id_twice,        \* extract_video_id(id_once)
    ipc,             \* position
    \* ---- the URL column of an uploaded CSV ----
    csv_rows,        \* the rows csv.reader yields
    csv_urls,        \* the urls list built from them
    kpc              \* position

batchVars == <<endpoint, urls, upstream, pc, idx, pending, results, sleeps, calls, status>>
vttVars   == <<vtt_content, lines, i, texts, transcript_list, vtt_result, vpc, timing_seen>>
tagVars   == <<tag_in, tag_out, tpc>>
retryVars == <<fn, max_retries, attempt, rpc, waits, fetches, last_error, outcome>>
transcriptVars == <<req_url, languages, yta, ydl_info, gpc, video_info, cand, delays,
                    transcript_ret, response>>
commentVars == <<max_comments, supplied, comments, cidx, cpc, cresult>>
idVars    == <<id_in, id_once, id_twice, ipc>>
csvVars   == <<csv_rows, csv_urls, kpc>>
vars      == <<batchVars, vttVars, tagVars, retryVars, transcriptVars, commentVars,
               idVars, csvVars>>

(***************************************************************************)
(* Python values                                                           *)
(***************************************************************************)
None == <<>>
Some(x) == <<x>>

\* dict.get(key): the value, or None when the key is absent
Get(d, k) == IF k \in DOMAIN d THEN d[k] ELSE None

(***************************************************************************)
(* Python string operations on sequences of characters                     *)
(***************************************************************************)
\* s[p:p+len(pat)] == pat
MatchAt(s, p, pat) ==
    /\ p + Len(pat) - 1 <= Len(s)
    /\ \A k \in 1..Len(pat) : s[p + k - 1] = pat[k]

\* pat in s   (pat non-empty)
Contains(s, pat) == \E p \in 1..Len(s) : MatchAt(s, p, pat)

\* the least position q >= p where sep occurs in s, or 0
FindFrom(s, sep, p) ==
    IF \E q \in p..Len(s) : MatchAt(s, q, sep)
    THEN CHOOSE q \in p..Len(s) :
            MatchAt(s, q, sep) /\ \A r \in p..(q - 1) : ~MatchAt(s, r, sep)
    ELSE 0

RECURSIVE SplitAcc(_, _, _, _)
SplitAcc(s, sep, p, acc) ==
    LET q == FindFrom(s, sep, p) IN
    IF q = 0 THEN Append(acc, SubSeq(s, p, Len(s)))
    ELSE SplitAcc(s, sep, q + Len(sep), Append(acc, SubSeq(s, p, q - 1)))

\* s.split(sep): left to right, non-overlapping, always at least one part
Split(s, sep) == SplitAcc(s, sep, 1, <<>>)

RECURSIVE JoinFrom(_, _, _)
JoinFrom(parts, sep, k) ==
    IF k > Len(parts) THEN <<>>
    ELSE IF k = Len(parts) THEN parts[k]
    ELSE parts[k] \o sep \o JoinFrom(parts, sep, k + 1)

\* sep.join(parts)
Join(parts, sep) == JoinFrom(parts, sep, 1)

(***************************************************************************)
(* URLs and extract_video_id                                               *)
(***************************************************************************)
YOUTU_BE == <<"youtu.be/">>
WATCH_V  == <<"watch", "?", "v=">>

UrlWatch == <<"https://", "www.youtube.com/", "watch", "?", "v=", "A", "&", "t=1">>
UrlShort == <<"https://", "youtu.be/", "B", "?", "t=1">>
UrlBare  == <<"C">>

Urls == {UrlWatch, UrlShort, UrlBare}

\* mutant: the query string of a youtu.be URL is not cut off
extract_video_id_NoCut(url) ==
    IF Contains(url, YOUTU_BE)
    THEN Split(url, YOUTU_BE)[2]
    ELSE IF Contains(url, WATCH_V)
    THEN Split(Split(url, WATCH_V)[2], <<"&">>)[1]
    ELSE url

extract_video_id(url) ==
    IF Contains(url, YOUTU_BE)
    THEN Split(Split(url, YOUTU_BE)[2], <<"?">>)[1]
    ELSE IF Contains(url, WATCH_V)
    THEN Split(Split(url, WATCH_V)[2], <<"&">>)[1]
    ELSE url

(***************************************************************************)
(* Exceptions and the VideoResponse model                                  *)
(***************************************************************************)
\* HTTPException(status_code=429, ...) raised by get_video_info after its retries
HTTP429 == [type |-> "HTTPException", status |-> "429", msg |-> "rate limited"]
\* pydantic's error when VideoResponse(title=None) is constructed
ValidationError == [type |-> "ValidationError", status |-> "", msg |-> "title: none is not an allowed value"]

\* str(e)
PyStr(e) == IF e.type = "HTTPException" THEN <<e.status, ": ", e.msg>> ELSE <<e.msg>>

\* title="처리 실패" ("processing failed"), written in ASCII here
FailedTitle == <<"processing failed">>

\* VideoResponse(...): the fields given, every other field None; title must be a str.
\* (The metadata fields that no claim reads, description .. categories and
\* subtitle_urls, are left out of the record.)
VideoResponse(kw) ==
    [video_id                 |-> kw.video_id,
     title                    |-> kw.title,
     url                      |-> kw.url,
     transcript               |-> Get(kw, "transcript"),
     transcript_language      |-> Get(kw, "transcript_language"),
     transcript_language_name |-> Get(kw, "transcript_language_name"),
     is_generated             |-> Get(kw, "is_generated"),
     snippet_count            |-> Get(kw, "snippet_count"),
     transcript_list          |-> Get(kw, "transcript_list"),
     error                    |-> Get(kw, "error")]

\* transcript_data as get_transcript returns it when a transcript was found ...
TDataFull ==
    [transcript      |-> Some(<<"h", "i">>),
     language        |-> Some("Korean"),
     language_code   |-> Some("ko"),
     is_generated    |-> Some(FALSE),
     snippet_count   |-> Some(1),
     transcript_list |-> Some(<<[text |-> <<"h", "i">>, start |-> 0, duration |-> 1000]>>)]
\* ... and when none was found
TDataNone ==
    [transcript |-> None, language |-> None, language_code |-> None,
     error |-> Some(<<"no transcript">>)]

\* What YouTube answers for one URL: get_video_info raises, or returns the
\* info dict (id, title) and get_transcript returns tdata.
AnsFull         == [kind |-> "ok", exc |-> None, id |-> <<"V">>, title |-> Some(<<"T">>), tdata |-> TDataFull]
AnsNoTranscript == [kind |-> "ok", exc |-> None, id |-> <<"V">>, title |-> Some(<<"T">>), tdata |-> TDataNone]
AnsNoTitle      == [kind |-> "ok", exc |-> None, id |-> <<"V">>, title |-> None, tdata |-> TDataFull]
AnsBlocked      == [kind |-> "raise", exc |-> Some(HTTP429), id |-> <<>>, title |-> None, tdata |-> TDataNone]

Answers == {AnsFull, AnsNoTranscript, AnsNoTitle, AnsBlocked}

Returned(v) == [kind |-> "return", value |-> v]
Raised(e)   == [kind |-> "raise", value |-> e]

\* extract_video_data(video_url, languages) against the answer ans
extract_video_data(video_url, ans) ==
    IF ans.kind = "raise" THEN Raised(ans.exc[1])
    ELSE LET transcript_data == ans.tdata IN
         IF ans.title = None THEN Raised(ValidationError)
         ELSE Returned(VideoResponse(
                [video_id                 |-> ans.id,
                 title                    |-> ans.title[1],
                 url                      |-> video_url,
                 transcript               |-> Get(transcript_data, "transcript"),
                 transcript_language      |-> Get(transcript_data, "language_code"),
                 transcript_language_name |-> Get(transcript_data, "language"),
                 is_generated             |-> Get(transcript_data, "is_generated"),
                 snippet_count            |-> Get(transcript_data, "snippet_count"),
                 transcript_list          |-> Get(transcript_data, "transcript_list"),
                 error                    |-> Get(transcript_data, "error")]))

(***************************************************************************)
(* The batch loops                                                         *)
(***************************************************************************)
Endpoints == {"transcript", "csv", "csv_save", "cli"}

\* len(request.video_urls) > 50 is answered 400 (POST /transcript)
TranscriptLimit == 50
\* len(urls) > 200 is answered 400 (CSV endpoints) or cut to 200 (command line)
CsvLimit == 200
\* the two thresholds of the delay table
MidThreshold == 50
SlowThreshold == 100

\* the delay between two items, in seconds, for a batch of n URLs
BatchDelay(e, n) ==
    IF e = "csv"
    THEN (IF n >= SlowThreshold THEN 3 ELSE IF n > MidThreshold THEN 2 ELSE 1)
    ELSE (IF n >= SlowThreshold THEN 5 ELSE IF n > MidThreshold THEN 3 ELSE 2)

\* mutant: the sleep also follows the last item
ShouldSleep_AfterLast(k, n) == k <= n

\* if idx < len(urls): ... time.sleep(delay)
ShouldSleep(k, n) == k < n

\* mutant: the placeholder carries the video id where the input URL belongs
FailurePlaceholder_IdAsUrl(url, e) ==
    VideoResponse([video_id |-> extract_video_id(url),
                   title    |-> FailedTitle,
                   url      |-> extract_video_id(url),
                   error    |-> Some(PyStr(e))])

\* except Exception as e: results.append(VideoResponse(video_id=..., title=..., url=url, error=str(e)))
FailurePlaceholder(url, e) ==
    VideoResponse([video_id |-> extract_video_id(url),
                   title    |-> FailedTitle,
                   url      |-> url,
                   error    |-> Some(PyStr(e))])

\* the element one iteration appends to results
BatchItemResult(url, out) ==
    IF out.kind = "return" THEN out.value ELSE FailurePlaceholder(url, out.value)

\* urls = urls[:200]
Truncate(us, n) == IF Len(us) > n THEN SubSeq(us, 1, n) ELSE us

NoPending == [kind |-> "none", value |-> None]

\* mutant: POST /transcript takes up to 200 URLs, as the CSV endpoints do
StartTranscript_Limit200 ==
    /\ pc = "start" /\ endpoint = "transcript"
    /\ IF Len(urls) > CsvLimit
       THEN pc' = "rejected" /\ status' = "400"
       ELSE IF urls = <<>>
       THEN pc' = "done" /\ status' = "200"
       ELSE pc' = "call" /\ status' = status
    /\ UNCHANGED <<endpoint, urls, upstream, idx, pending, results, sleeps, calls>>
    /\ UNCHANGED <<vttVars, tagVars, retryVars, transcriptVars, commentVars, idVars, csvVars>>

\* POST /transcript: the size check, then the loop over request.video_urls
StartTranscript ==
    /\ pc = "start" /\ endpoint = "transcript"
    /\ IF Len(urls) > TranscriptLimit
       THEN pc' = "rejected" /\ status' = "400"
       ELSE IF urls = <<>>
       THEN pc' = "done" /\ status' = "200"
       ELSE pc' = "call" /\ status' = status
    /\ UNCHANGED <<endpoint, urls, upstream, idx, pending, results, sleeps, calls>>
    /\ UNCHANGED <<vttVars, tagVars, retryVars, transcriptVars, commentVars, idVars, csvVars>>

\* POST /transcript/csv and POST /transcript/csv-save: the two checks on urls
StartCsv ==
    /\ pc = "start" /\ endpoint \in {"csv", "csv_save"}
    /\ IF urls = <<>> \/ Len(urls) > CsvLimit
       THEN pc' = "rejected" /\ status' = "400"
       ELSE pc' = "call" /\ status' = status
    /\ UNCHANGED <<endpoint, urls, upstream, idx, pending, results, sleeps, calls>>
    /\ UNCHANGED <<vttVars, tagVars, retryVars, transcriptVars, commentVars, idVars, csvVars>>

\* mutant: the command line script does not cut the list
StartCli_NoTruncate ==
    /\ pc = "start" /\ endpoint = "cli"
    /\ IF urls = <<>>
       THEN pc' = "exit" /\ status' = "exit 1" /\ urls' = urls
       ELSE pc' = "call" /\ status' = status /\ urls' = urls
    /\ UNCHANGED <<endpoint, upstream, idx, pending, results, sleeps, calls>>
    /\ UNCHANGED <<vttVars, tagVars, retryVars, transcriptVars, commentVars, idVars, csvVars>>

\* extract_from_csv.py main(): exit on no URL, keep the first 200
StartCli ==
    /\ pc = "start" /\ endpoint = "cli"
    /\ IF urls = <<>>
       THEN pc' = "exit" /\ status' = "exit 1" /\ urls' = urls
       ELSE pc' = "call" /\ status' = status /\ urls' = Truncate(urls, CsvLimit)
    /\ UNCHANGED <<endpoint, upstream, idx, pending, results, sleeps, calls>>
    /\ UNCHANGED <<vttVars, tagVars, retryVars, transcriptVars, commentVars, idVars, csvVars>>

\* try: result = extract_video_data(url, languages)
Extract ==
    /\ pc = "call"
    /\ \E ans \in upstream[urls[idx]] :
         /\ pending' = extract_video_data(urls[idx], ans)
         /\ calls' = Append(calls, [idx |-> idx, url |-> urls[idx], out |-> pending'])
    /\ pc' = "append"
    /\ UNCHANGED <<endpoint, urls, upstream, idx, results, sleeps, status>>
    /\ UNCHANGED <<vttVars, tagVars, retryVars, transcriptVars, commentVars, idVars, csvVars>>

\* mutant: an exception of the item leaves the loop (no except clause around the call)
AppendResult_Reraise ==
    /\ pc = "append"
    /\ IF pending.kind = "return"
       THEN /\ results' = Append(results, pending.value)
            /\ pc' = "delay" /\ status' = status
       ELSE /\ results' = results
            /\ pc' = "failed" /\ status' = "500"
    /\ pending' = NoPending
    /\ UNCHANGED <<endpoint, urls, upstream, idx, sleeps, calls>>
    /\ UNCHANGED <<vttVars, tagVars, retryVars, transcriptVars, commentVars, idVars, csvVars>>

\* results.append(result)  /  except Exception: results.append(VideoResponse(...))
AppendResult ==
    /\ pc = "append"
    /\ results' = Append(results, BatchItemResult(urls[idx], pending))
    /\ pending' = NoPending
    /\ pc' = "delay"
    /\ UNCHANGED <<endpoint, urls, upstream, idx, sleeps, calls, status>>
    /\ UNCHANGED <<vttVars, tagVars, retryVars, transcriptVars, commentVars, idVars, csvVars>>

\* mutant: after the sleep the loop takes the same item again
Sleep_SameItem ==
    /\ pc = "delay"
    /\ ShouldSleep(idx, Len(urls))
    /\ sleeps' = Append(sleeps, [after |-> idx, seconds |-> BatchDelay(endpoint, Len(urls))])
    /\ idx' = idx
    /\ pc' = "call"
    /\ UNCHANGED <<endpoint, urls, upstream, pending, results, calls, status>>
    /\ UNCHANGED <<vttVars, tagVars, retryVars, transcriptVars, commentVars, idVars, csvVars>>

\* if idx < len(urls): time.sleep(delay), then the next item
Sleep ==
    /\ pc = "delay"
    /\ ShouldSleep(idx, Len(urls))
    /\ sleeps' = Append(sleeps, [after |-> idx, seconds |-> BatchDelay(endpoint, Len(urls))])
    /\ idx' = idx + 1
    /\ pc' = "call"
    /\ UNCHANGED <<endpoint, urls, upstream, pending, results, calls, status>>
    /\ UNCHANGED <<vttVars, tagVars, retryVars, transcriptVars, commentVars, idVars, csvVars>>

\* the loop ends after the last item: return results / save the file
Finish ==
    /\ pc = "delay"
    /\ ~ShouldSleep(idx, Len(urls))
    /\ pc' = "done"
    /\ status' = IF endpoint = "cli" THEN "saved" ELSE "200"
    /\ UNCHANGED <<endpoint, urls, upstream, idx, pending, results, sleeps, calls>>
    /\ UNCHANGED <<vttVars, tagVars, retryVars, transcriptVars, commentVars, idVars, csvVars>>

(***************************************************************************)
(* The inputs of the batch loops                                           *)
(***************************************************************************)
MaxBatch == 3

\* a bare video id after the CSV readers prefixed it
UrlFromId == <<"https://", "www.youtube.com/", "watch", "?", "v=", "C">>
AllUrls == Urls \cup {UrlFromId}

\* POST /transcript takes any string; the CSV readers only yield URLs that start with http
UrlList(e) == IF e = "transcript" THEN <<UrlWatch, UrlShort, UrlBare>>
                                  ELSE <<UrlWatch, UrlShort, UrlFromId>>

ShortBatches(e) ==
    UNION {[1..n -> {UrlList(e)[k] : k \in 1..3}] : n \in 0..MaxBatch}

\* the batch sizes around the limits and the thresholds of the delay table
LongSizes == {TranscriptLimit, TranscriptLimit + 1, SlowThreshold - 1, SlowThreshold,
              CsvLimit, CsvLimit + 1}
LongBatch(e, n) == [k \in 1..n |-> UrlList(e)[((k - 1) % 3) + 1]]

Batches(e) == ShortBatches(e) \cup {LongBatch(e, n) : n \in LongSizes}

\* Short batches: every URL may get every answer, anew at each call.
\* Long batches: YouTube answers each URL the same way throughout the run.
Worlds(us) ==
    IF Len(us) <= MaxBatch
    THEN {[u \in AllUrls |-> Answers]}
    ELSE {[u \in AllUrls |-> {AnsFull}],
          [u \in AllUrls |-> IF u = UrlShort THEN {AnsBlocked} ELSE {AnsFull}]}

BatchInit ==
    /\ endpoint \in Endpoints
    /\ urls \in Batches(endpoint)
    /\ upstream \in Worlds(urls)
    /\ pc = "start"
    /\ idx = 1
    /\ pending = NoPending
    /\ results = <<>>
    /\ sleeps = <<>>
    /\ calls = <<>>
    /\ status = "none"

VttIdle ==
    /\ vtt_content = <<>> /\ lines = <<>> /\ i = 1 /\ texts = <<>>
    /\ transcript_list = <<>> /\ vtt_result = None /\ vpc = "idle" /\ timing_seen = <<>>

TagIdle == tag_in = <<>> /\ tag_out = <<>> /\ tpc = "idle"

RetryIdle ==
    /\ fn = "none" /\ max_retries = 0 /\ attempt = 0 /\ rpc = "idle"
    /\ waits = <<>> /\ fetches = <<>> /\ last_error = None /\ outcome = NoPending

TranscriptIdle ==
    /\ req_url = <<>> /\ languages = <<>> /\ yta = None /\ ydl_info = None
    /\ gpc = "idle" /\ video_info = None /\ cand = 1 /\ delays = <<>>
    /\ transcript_ret = None /\ response = NoPending

CommentsIdle ==
    /\ max_comments = 0 /\ supplied = <<>> /\ comments = <<>> /\ cidx = 1
    /\ cpc = "idle" /\ cresult = None

IdIdle == id_in = <<>> /\ id_once = <<>> /\ id_twice = <<>> /\ ipc = "idle"

CsvIdle == csv_rows = <<>> /\ csv_urls = <<>> /\ kpc = "idle"

OthersIdle == RetryIdle /\ TranscriptIdle /\ CommentsIdle /\ IdIdle /\ CsvIdle

Init == BatchInit /\ VttIdle /\ TagIdle /\ OthersIdle

Next ==
    \/ StartTranscript
    \/ StartCsv
    \/ StartCli
    \/ Extract
    \/ AppendResult
    \/ Sleep
    \/ Finish

Spec == Init /\ [][Next]_vars

(***************************************************************************)
(* Characters, str.strip, int() and float()                                *)
(***************************************************************************)
Whitespace == {" ", "\t", "\r", "\n"}
Digits == {"0", "1", "2", "3", "4", "5", "6", "7", "8", "9"}

DigitValue(c) ==
    CASE c = "0" -> 0 [] c = "1" -> 1 [] c = "2" -> 2 [] c = "3" -> 3 [] c = "4" -> 4
      [] c = "5" -> 5 [] c = "6" -> 6 [] c = "7" -> 7 [] c = "8" -> 8 [] c = "9" -> 9

\* s.strip(): without the leading and trailing whitespace
Strip(s) ==
    LET keep == {p \in 1..Len(s) : s[p] \notin Whitespace} IN
    IF keep = {} THEN <<>>
    ELSE LET a == CHOOSE p \in keep : \A q \in keep : p <= q
             b == CHOOSE p \in keep : \A q \in keep : q <= p
         IN SubSeq(s, a, b)

AllDigits(s) == \A p \in 1..Len(s) : s[p] \in Digits

RECURSIVE DigitsValue(_)
DigitsValue(s) ==
    IF s = <<>> THEN 0
    ELSE 10 * DigitsValue(SubSeq(s, 1, Len(s) - 1)) + DigitValue(s[Len(s)])

HasSign(s) == s # <<>> /\ s[1] \in {"+", "-"}
Unsigned(s) == IF HasSign(s) THEN Tail(s) ELSE s
SignOf(s) == IF s # <<>> /\ s[1] = "-" THEN -1 ELSE 1

\* int(x) succeeds: optional sign, then one or more digits (surrounding
\* whitespace allowed).  Underscores between digits are not modelled.
IntOk(x) == LET u == Unsigned(Strip(x)) IN u # <<>> /\ AllDigits(u)
IntValue(x) == SignOf(Strip(x)) * DigitsValue(Unsigned(Strip(x)))

\* float(x) succeeds: optional sign, digits with at most one point and at
\* least one digit.  Exponents, underscores, inf and nan are not modelled;
\* no input of the model contains them.
FloatOk(x) ==
    LET parts == Split(Unsigned(Strip(x)), <<".">>) IN
    /\ Len(parts) <= 2
    /\ \A k \in 1..Len(parts) : AllDigits(parts[k])
    /\ \E k \in 1..Len(parts) : parts[k] # <<>>

\* the fraction digits as milliseconds (the inputs carry at most three)
FractionMillis(f) ==
    LET d == SubSeq(f, 1, IF Len(f) < 3 THEN Len(f) ELSE 3) IN
    CASE Len(d) = 0 -> 0
      [] Len(d) = 1 -> 100 * DigitsValue(d)
      [] Len(d) = 2 -> 10 * DigitsValue(d)
      [] OTHER      -> DigitsValue(d)

\* float(x), in thousandths
FloatMillis(x) ==
    LET parts == Split(Unsigned(Strip(x)), <<".">>) IN
    SignOf(Strip(x)) *
      (1000 * DigitsValue(parts[1])
         + (IF Len(parts) = 2 THEN FractionMillis(parts[2]) ELSE 0))

(***************************************************************************)
(* parse_vtt_time and remove_vtt_tags                                      *)
(***************************************************************************)
\* hours * 3600 + minutes * 60 + seconds, in milliseconds; 0.0 on any exception
parse_vtt_time(time_str) ==
    LET parts == Split(time_str, <<":">>) IN
    IF Len(parts) >= 3 /\ IntOk(parts[1]) /\ IntOk(parts[2]) /\ FloatOk(parts[3])
    THEN IntValue(parts[1]) * 3600000 + IntValue(parts[2]) * 60000 + FloatMillis(parts[3])
    ELSE 0

\* the least q >= p with q past the end of s or s[q] outside set
RunEnd(s, p, set) ==
    CHOOSE q \in p..(Len(s) + 1) :
        /\ q = Len(s) + 1 \/ s[q] \notin set
        /\ \A r \in p..(q - 1) : s[r] \in set

\* the least q >= p with s[q] = ">", or 0
NextClose(s, p) ==
    IF \E q \in p..Len(s) : s[q] = ">"
    THEN CHOOSE q \in p..Len(s) : s[q] = ">" /\ \A r \in p..(q - 1) : s[r] # ">"
    ELSE 0

\* one-or-more digits from p that are followed by the character c:
\* the position after c, or 0
DigitsThen(s, p, c) ==
    IF p = 0 \/ p > Len(s) THEN 0
    ELSE LET q == RunEnd(s, p, Digits) IN
         IF q > p /\ q <= Len(s) /\ s[q] = c THEN q + 1 ELSE 0

\* re.match of r'<\d+:\d+:\d+\.\d+>' at p: the position after the match, or 0
MatchTimestampTag(s, p) ==
    IF s[p] # "<" THEN 0
    ELSE DigitsThen(s, DigitsThen(s, DigitsThen(s, DigitsThen(s, p + 1, ":"), ":"), "."), ">")

\* re.match of r'</?c[^>]*>' at p: the position after the match, or 0
MatchCTag(s, p) ==
    IF s[p] # "<" THEN 0
    ELSE LET q == IF p + 1 <= Len(s) /\ s[p + 1] = "/" THEN p + 2 ELSE p + 1 IN
         IF q <= Len(s) /\ s[q] = "c" /\ NextClose(s, q + 1) # 0
         THEN NextClose(s, q + 1) + 1 ELSE 0

\* re.match of r'<[^>]+>' at p: the position after the match, or 0
MatchAnyTag(s, p) ==
    IF s[p] # "<" THEN 0
    ELSE LET q == NextClose(s, p + 1) IN IF q >= p + 2 THEN q + 1 ELSE 0

MatchEnd(re, s, p) ==
    CASE re = "timestamp" -> MatchTimestampTag(s, p)
      [] re = "c"         -> MatchCTag(s, p)
      [] re = "any"       -> MatchAnyTag(s, p)

RECURSIVE SubFrom(_, _, _)
SubFrom(re, s, p) ==
    IF p > Len(s) THEN <<>>
    ELSE LET e == MatchEnd(re, s, p) IN
         IF e > 0 THEN SubFrom(re, s, e) ELSE <<s[p]>> \o SubFrom(re, s, p + 1)

\* re.sub(re, '', s): one pass, left to right, over non-overlapping matches
ReSub(re, s) == SubFrom(re, s, 1)

\* mutant: the last pass (any other tag) is missing
remove_vtt_tags_TwoPasses(text) == Strip(ReSub("c", ReSub("timestamp", text)))

remove_vtt_tags(text) == Strip(ReSub("any", ReSub("c", ReSub("timestamp", text))))

(***************************************************************************)
(* The VTT parser of download_subtitle_vtt                                 *)
(***************************************************************************)
ARROW == <<"-", "-", ">">>

\* '-->' in line
IsTimingLine(line) == Contains(line, ARROW)

\* time_parts[k].strip().split(' ')[0]
TimeToken(line, k) == Split(Strip(Split(line, ARROW)[k]), <<" ">>)[1]

\* mutant: the inner loop does not stop at a line that contains '-->'
RECURSIVE TextEnd_ThroughTiming(_, _)
TextEnd_ThroughTiming(ls, j) ==
    IF j <= Len(ls) /\ Strip(ls[j]) # <<>>
    THEN TextEnd_ThroughTiming(ls, j + 1) ELSE j

\* mutant: the inner loop does not stop at a blank line
RECURSIVE TextEnd_ThroughBlank(_, _)
TextEnd_ThroughBlank(ls, j) ==
    IF j <= Len(ls) /\ ~IsTimingLine(ls[j])
    THEN TextEnd_ThroughBlank(ls, j + 1) ELSE j

\* the inner while loop from line j: the index where it stops
RECURSIVE TextEnd(_, _)
TextEnd(ls, j) ==
    IF j <= Len(ls) /\ Strip(ls[j]) # <<>> /\ ~IsTimingLine(ls[j])
    THEN TextEnd(ls, j + 1) ELSE j

\* subtitle_text: the texts of lines j .. e-1 that are not empty after tag removal
RECURSIVE SubtitleText(_, _, _)
SubtitleText(ls, j, e) ==
    IF j >= e THEN <<>>
    ELSE LET text == remove_vtt_tags(Strip(ls[j])) IN
         (IF text # <<>> THEN <<text>> ELSE <<>>) \o SubtitleText(ls, j + 1, e)

\* mutant: the end time is stored as the duration
MakeCue_DurationIsEnd(line, subtitle_text) ==
    LET start_seconds == parse_vtt_time(TimeToken(line, 1))
        end_seconds   == parse_vtt_time(TimeToken(line, 2))
    IN [text     |-> Join(subtitle_text, <<" ">>),
        start    |-> start_seconds,
        duration |-> end_seconds]

\* the cue of the timing line at index k with the text lines collected
MakeCue(line, subtitle_text) ==
    LET start_seconds == parse_vtt_time(TimeToken(line, 1))
        end_seconds   == parse_vtt_time(TimeToken(line, 2))
    IN [text     |-> Join(subtitle_text, <<" ">>),
        start    |-> start_seconds,
        duration |-> end_seconds - start_seconds]

\* lines = vtt_content.split('\n'); i = 0
SplitLines ==
    /\ vpc = "fetched"
    /\ lines' = Split(vtt_content, <<"\n">>)
    /\ i' = 1
    /\ vpc' = "scan"
    /\ UNCHANGED <<vtt_content, texts, transcript_list, vtt_result, timing_seen>>
    /\ UNCHANGED <<batchVars, tagVars, retryVars, transcriptVars, commentVars, idVars, csvVars>>

\* one pass of the outer loop on a line that contains '-->'.  Nothing in the
\* try block can raise (time_parts has two parts, parse_vtt_time and
\* remove_vtt_tags catch or avoid every error), so its except clause has no step.
TimingLine ==
    /\ vpc = "scan" /\ i <= Len(lines)
    /\ IsTimingLine(Strip(lines[i]))
    /\ LET e == TextEnd(lines, i + 1)
           subtitle_text == SubtitleText(lines, i + 1, e)
           cue == MakeCue(Strip(lines[i]), subtitle_text)
       IN /\ i' = e
          /\ IF subtitle_text # <<>>
             THEN /\ texts' = Append(texts, cue.text)
                  /\ transcript_list' = Append(transcript_list, cue)
             ELSE UNCHANGED <<texts, transcript_list>>
    /\ timing_seen' = Append(timing_seen, i)
    /\ UNCHANGED <<vtt_content, lines, vtt_result, vpc>>
    /\ UNCHANGED <<batchVars, tagVars, retryVars, transcriptVars, commentVars, idVars, csvVars>>

\* one pass of the outer loop on any other line: i += 1
OtherLine ==
    /\ vpc = "scan" /\ i <= Len(lines)
    /\ ~IsTimingLine(Strip(lines[i]))
    /\ i' = i + 1
    /\ UNCHANGED <<vtt_content, lines, texts, transcript_list, vtt_result, vpc, timing_seen>>
    /\ UNCHANGED <<batchVars, tagVars, retryVars, transcriptVars, commentVars, idVars, csvVars>>

\* mutant: the transcript is joined without the separating space
ReturnParsed_NoSeparator ==
    /\ vpc = "scan" /\ i > Len(lines)
    /\ vtt_result' = Some([transcript      |-> Join(texts, <<>>),
                           snippet_count   |-> Len(transcript_list),
                           transcript_list |-> transcript_list])
    /\ vpc' = "done"
    /\ UNCHANGED <<vtt_content, lines, i, texts, transcript_list, timing_seen>>
    /\ UNCHANGED <<batchVars, tagVars, retryVars, transcriptVars, commentVars, idVars, csvVars>>

\* return {'transcript': " ".join(texts), 'snippet_count': ..., 'transcript_list': ...}
ReturnParsed ==
    /\ vpc = "scan" /\ i > Len(lines)
    /\ vtt_result' = Some([transcript      |-> Join(texts, <<" ">>),
                           snippet_count   |-> Len(transcript_list),
                           transcript_list |-> transcript_list])
    /\ vpc' = "done"
    /\ UNCHANGED <<vtt_content, lines, i, texts, transcript_list, timing_seen>>
    /\ UNCHANGED <<batchVars, tagVars, retryVars, transcriptVars, commentVars, idVars, csvVars>>

(***************************************************************************)
(* The inputs of the parser                                                *)
(***************************************************************************)
MaxLines == 3

LineTiming   == <<"0", "0", ":", "0", "0", ":", "0", "1", ".", "0", "0", "0", " ", "-", "-", ">", " ", "0", "0", ":", "0", "0", ":", "0", "2", ".", "5", "0", "0">>
LineAlign    == <<"0", "0", ":", "0", "0", ":", "0", "2", ".", "5", "0", "0", " ", "-", "-", ">", " ", "0", "0", ":", "0", "0", ":", "0", "4", ".", "0", "0", "0", " ", "a", "l", "i", "g", "n", ":", "s", "t", "a", "r", "t">>
LineReversed == <<"0", "0", ":", "0", "0", ":", "0", "4", ".", "0", "0", "0", " ", "-", "-", ">", " ", "0", "0", ":", "0", "0", ":", "0", "2", ".", "5", "0", "0">>
LineNoHours  == <<"0", "0", ":", "0", "0", ":", "0", "3", ".", "0", "0", "0", " ", "-", "-", ">", " ", "0", "0", ":", "0", "4", ".", "0", "0", "0">>
LineBlank    == <<>>
LineSpace    == <<" ", "\r">>
LineTagged   == <<"a", "<", "c", ">", "b", "<", "/", "c", ">">>
LineOnlyTags == <<"<", "c", ">", "<", "/", "c", ">">>
LinePlain    == <<"B", "y", "e">>

SampleLines == {LineTiming, LineAlign, LineReversed, LineNoHours, LineBlank, LineSpace,
                LineTagged, LineOnlyTags, LinePlain}

\* the body of the example in the parser's description
ExampleBody == <<"0", "0", ":", "0", "0", ":", "0", "1", ".", "0", "0", "0", " ", "-", "-", ">", " ", "0", "0", ":", "0", "0", ":", "0", "2", ".", "5", "0", "0", "\n", "H", "e", "l", "l", "o", " ", "<", "c", ">", "w", "o", "r", "l", "d", "<", "/", "c", ">", "\n", "\n", "0", "0", ":", "0", "0", ":", "0", "2", ".", "5", "0", "0", " ", "-", "-", ">", " ", "0", "0", ":", "0", "0", ":", "0", "4", ".", "0", "0", "0", "\n", "B", "y", "e", "\n">>

\* a cue whose text is followed by a blank line and more text before the next cue
BlankInsideBody == <<"0", "0", ":", "0", "0", ":", "0", "1", ".", "0", "0", "0", " ", "-", "-", ">", " ", "0", "0", ":", "0", "0", ":", "0", "2", ".", "5", "0", "0", "\n", "B", "y", "e", "\n", "\n", "a", "<", "c", ">", "b", "<", "/", "c", ">", "\n", "0", "0", ":", "0", "0", ":", "0", "2", ".", "5", "0", "0", " ", "-", "-", ">", " ", "0", "0", ":", "0", "0", ":", "0", "4", ".", "0", "0", "0", " ", "a", "l", "i", "g", "n", ":", "s", "t", "a", "r", "t", "\n", "B", "y", "e">>

\* two cues, the second with its end before its start
TwoCueBody == <<"W", "E", "B", "V", "T", "T", "\n", "\n", "0", "0", ":", "0", "0", ":", "0", "1", ".", "0", "0", "0", " ", "-", "-", ">", " ", "0", "0", ":", "0", "0", ":", "0", "2", ".", "5", "0", "0", "\n", "a", "<", "c", ">", "b", "<", "/", "c", ">", "\n", "B", "y", "e", "\n", "\n", "0", "0", ":", "0", "0", ":", "0", "4", ".", "0", "0", "0", " ", "-", "-", ">", " ", "0", "0", ":", "0", "0", ":", "0", "2", ".", "5", "0", "0", "\n", "<", "c", ">", "<", "/", "c", ">", "\n", "B", "y", "e", "\n">>

VttBodies ==
    {ExampleBody, BlankInsideBody, TwoCueBody} \cup
    {Join(ls, <<"\n">>) : ls \in UNION {[1..n -> SampleLines] : n \in 1..MaxLines}}

BatchIdle ==
    /\ endpoint = "transcript" /\ urls = <<>> /\ upstream = [u \in AllUrls |-> Answers]
    /\ pc = "idle" /\ idx = 1 /\ pending = NoPending /\ results = <<>>
    /\ sleeps = <<>> /\ calls = <<>> /\ status = "none"

VttInit ==
    /\ vtt_content \in VttBodies
    /\ lines = <<>> /\ i = 1 /\ texts = <<>> /\ transcript_list = <<>>
    /\ vtt_result = None /\ vpc = "fetched" /\ timing_seen = <<>>
    /\ BatchIdle /\ TagIdle /\ OthersIdle

VttNext == SplitLines \/ TimingLine \/ OtherLine \/ ReturnParsed

VttSpec == VttInit /\ [][VttNext]_vars

(***************************************************************************)
(* remove_vtt_tags on its own                                              *)
(***************************************************************************)
MaxPieces == 4

\* the lines are built from these pieces
TagPieces == {<<"<">>, <<">">>, <<"c">>, <<"/">>, <<"x">>, <<".">>,
              <<"<", "c", ">">>, <<"<", "1", ":", "2", ":">>, <<"3", ".", "4", ">">>}

RECURSIVE Flatten(_)
Flatten(ps) == IF ps = <<>> THEN <<>> ELSE Head(ps) \o Flatten(Tail(ps))

TagInputs == {Flatten(ps) : ps \in UNION {[1..n -> TagPieces] : n \in 0..MaxPieces}}

TagInit ==
    /\ tag_in \in TagInputs /\ tag_out = <<>> /\ tpc = "call"
    /\ BatchIdle /\ VttIdle /\ OthersIdle

\* text = remove_vtt_tags(text)
RemoveTags ==
    /\ tpc = "call"
    /\ tag_out' = remove_vtt_tags(tag_in)
    /\ tpc' = "done"
    /\ UNCHANGED <<tag_in, batchVars, vttVars, retryVars, transcriptVars, commentVars, idVars, csvVars>>

TagNext == RemoveTags

TagSpec == TagInit /\ [][TagNext]_vars

(***************************************************************************)
(* The retry loops of get_video_info and download_subtitle_vtt             *)
(***************************************************************************)
UpperCase == <<"A", "B", "C", "D", "E", "F", "G", "H", "I", "J", "K", "L", "M",
               "N", "O", "P", "Q", "R", "S", "T", "U", "V", "W", "X", "Y", "Z">>
LowerCase == <<"a", "b", "c", "d", "e", "f", "g", "h", "i", "j", "k", "l", "m",
               "n", "o", "p", "q", "r", "s", "t", "u", "v", "w", "x", "y", "z">>

\* str.lower() (ASCII letters; the messages of the model hold no others)
Lower(s) ==
    [p \in 1..Len(s) |->
        IF \E k \in 1..26 : UpperCase[k] = s[p]
        THEN LowerCase[CHOOSE k \in 1..26 : UpperCase[k] = s[p]]
        ELSE s[p]]

\* the keyword list of the DownloadError handler
RateLimitKeywords ==
    {<<"b", "o", "t">>, <<"s", "i", "g", "n", " ", "i", "n">>, <<"c", "o", "o", "k", "i", "e", "s">>, <<"4", "2", "9">>, <<"t", "o", "o", " ", "m", "a", "n", "y", " ", "r", "e", "q", "u", "e", "s", "t", "s">>, <<"r", "a", "t", "e", " ", "l", "i", "m", "i", "t">>, <<"p", "r", "e", "c", "o", "n", "d", "i", "t", "i", "o", "n">>}
\* ... of its parsing-error branch
PlayerKeywords == {<<"f", "a", "i", "l", "e", "d", " ", "t", "o", " ", "e", "x", "t", "r", "a", "c", "t">>, <<"p", "l", "a", "y", "e", "r", " ", "r", "e", "s", "p", "o", "n", "s", "e">>}
\* ... and of the handler of every other exception
BotKeywords == {<<"b", "o", "t">>, <<"s", "i", "g", "n", " ", "i", "n">>, <<"c", "o", "o", "k", "i", "e", "s">>}
\* the two keywords that choose 403 over 429
BlockedKeywords == {<<"b", "o", "t">>, <<"s", "i", "g", "n", " ", "i", "n">>}
VIDEO_UNAVAILABLE == <<"V", "i", "d", "e", "o", " ", "u", "n", "a", "v", "a", "i", "l", "a", "b", "l", "e">>

\* any(keyword in error_msg.lower() for keyword in kws)
AnyKeyword(kws, error_msg) == \E keyword \in kws : Contains(Lower(error_msg), keyword)

\* HTTPException(status_code=..., detail=...); the detail texts are summarised
HTTPException(status_code, detail) ==
    [type |-> "HTTPException", status |-> status_code, msg |-> detail]

Continue == [kind |-> "continue", value |-> None]

\* except yt_dlp.utils.DownloadError as e: continue, or the exception raised
OnDownloadError(error_msg, att, max) ==
    IF AnyKeyword(RateLimitKeywords, error_msg)
    THEN IF att < max - 1 THEN Continue
         ELSE IF AnyKeyword(BlockedKeywords, error_msg)
              THEN Raised(HTTPException("403", "blocked by bot detection"))
              ELSE Raised(HTTPException("429", "rate limited"))
    ELSE IF AnyKeyword(PlayerKeywords, error_msg)
    THEN IF att < max - 1 THEN Continue
         ELSE Raised(HTTPException("500", "extraction failed"))
    ELSE IF Contains(error_msg, VIDEO_UNAVAILABLE)
    THEN Raised(HTTPException("404", "video not found"))
    ELSE Raised(HTTPException("400", "cannot get video info"))

\* mutant: a bot-detection error is retried on the last attempt too
OnException_AlwaysRetry(error_msg, att, max) ==
    IF AnyKeyword(BotKeywords, error_msg)
    THEN Continue
    ELSE Raised(HTTPException("500", "server error"))

\* except Exception as e: continue, or the exception raised
OnException(error_msg, att, max) ==
    IF AnyKeyword(BotKeywords, error_msg)
    THEN IF att < max - 1 THEN Continue
         ELSE Raised(HTTPException("403", "blocked by bot detection"))
    ELSE Raised(HTTPException("500", "server error"))

RECURSIVE Pow2(_)
Pow2(n) == IF n = 0 THEN 1 ELSE 2 * Pow2(n - 1)

\* the cap of the backoff, in seconds
BackoffCap == 10

\* mutant: the backoff is not capped
wait_time_Uncapped(att) == Pow2(att)

\* wait_time = min(2 ** attempt, 10)
wait_time(att) == IF Pow2(att) < BackoffCap THEN Pow2(att) ELSE BackoffCap

\* the HTTP status that download_subtitle_vtt retries
TooManyRequests == 429

\* response.raise_for_status() raises HTTPError
IsHttpError(status_code) == 400 <= status_code /\ status_code < 600

\* ---- what the environment may answer to one fetch ----
\* messages of yt-dlp errors
MsgBot       == <<"S", "i", "g", "n", " ", "i", "n", " ", "t", "o", " ", "c", "o", "n", "f", "i", "r", "m", " ", "y", "o", "u", "'", "r", "e", " ", "n", "o", "t", " ", "a", " ", "b", "o", "t">>
MsgSignIn    == <<"S", "i", "g", "n", " ", "i", "n", " ", "t", "o", " ", "v", "i", "e", "w", " ", "t", "h", "i", "s", " ", "v", "i", "d", "e", "o", ".", " ", "U", "s", "e", " ", "-", "-", "c", "o", "o", "k", "i", "e", "s">>
MsgCookies   == <<"U", "s", "e", " ", "-", "-", "c", "o", "o", "k", "i", "e", "s", " ", "f", "o", "r", " ", "t", "h", "e", " ", "a", "u", "t", "h", "e", "n", "t", "i", "c", "a", "t", "i", "o", "n">>
Msg429       == <<"H", "T", "T", "P", " ", "E", "r", "r", "o", "r", " ", "4", "2", "9", ":", " ", "T", "o", "o", " ", "M", "a", "n", "y", " ", "R", "e", "q", "u", "e", "s", "t", "s">>
MsgPlayer    == <<"F", "a", "i", "l", "e", "d", " ", "t", "o", " ", "e", "x", "t", "r", "a", "c", "t", " ", "a", "n", "y", " ", "p", "l", "a", "y", "e", "r", " ", "r", "e", "s", "p", "o", "n", "s", "e">>
MsgPlayerCookies == <<"F", "a", "i", "l", "e", "d", " ", "t", "o", " ", "e", "x", "t", "r", "a", "c", "t", " ", "p", "l", "a", "y", "e", "r", " ", "r", "e", "s", "p", "o", "n", "s", "e", ";", " ", "p", "a", "s", "s", " ", "c", "o", "o", "k", "i", "e", "s">>
MsgUnavailable == <<"V", "i", "d", "e", "o", " ", "u", "n", "a", "v", "a", "i", "l", "a", "b", "l", "e">>
MsgPrivate   == <<"P", "r", "i", "v", "a", "t", "e", " ", "v", "i", "d", "e", "o">>

ErrorMessages == {MsgBot, MsgSignIn, MsgCookies, Msg429, MsgPlayer, MsgPlayerCookies,
                  MsgUnavailable, MsgPrivate}

\* the result dict of get_video_info (video_id and title; the other fields
\* are copied from info and no claim reads them)
InfoTitled   == [video_id |-> <<"V">>, title |-> Some(<<"T">>)]
InfoUntitled == [video_id |-> <<"V">>, title |-> None]

\* ydl.extract_info(video_url, download=False) in get_video_info
InfoAnswers ==
    {[kind |-> "info", value |-> r] : r \in {InfoTitled, InfoUntitled}}
    \cup {[kind |-> k, value |-> m] : k \in {"DownloadError", "Exception"}, m \in ErrorMessages}

\* the bodies a subtitle URL may serve
ZeroCueBody == <<"W", "E", "B", "V", "T", "T", "\n">>

OkStatus == 200
NotFound == 404
Unavailable == 503

\* requests.get(url, headers=headers, timeout=15) in download_subtitle_vtt
VttAnswers ==
    {[kind |-> "response", status_code |-> OkStatus, text |-> b] : b \in {ZeroCueBody, ExampleBody}}
    \cup {[kind |-> "response", status_code |-> c, text |-> <<>>] :
             c \in {TooManyRequests, NotFound, Unavailable}}
    \cup {[kind |-> k, status_code |-> 0, text |-> <<>>] : k \in {"Timeout", "ConnectionError"}}

\* the failure of a fetch, as the histories record it
Failure(kind, detail) == Some([kind |-> kind, detail |-> detail])

\* top of the for loop with attempts left: sleep before every attempt but the first
BeginAttempt ==
    /\ rpc = "loop" /\ attempt < max_retries
    /\ waits' = IF attempt > 0 THEN Append(waits, wait_time(attempt)) ELSE waits
    /\ rpc' = "try"
    /\ UNCHANGED <<fn, max_retries, attempt, fetches, last_error, outcome>>
    /\ UNCHANGED <<batchVars, vttVars, tagVars, transcriptVars, commentVars, idVars, csvVars>>

\* the for loop ran out (only when max_retries <= 0: the last attempt never continues)
LoopEnd ==
    /\ rpc = "loop" /\ attempt >= max_retries
    /\ outcome' = IF fn = "get_video_info"
                  THEN Raised(HTTPException("403", "blocked by bot detection"))
                  ELSE Returned(None)
    /\ rpc' = "done"
    /\ UNCHANGED <<fn, max_retries, attempt, waits, fetches, last_error>>
    /\ UNCHANGED <<batchVars, vttVars, tagVars, transcriptVars, commentVars, idVars, csvVars>>

\* mutant: a retryable error of get_video_info on the last attempt is retried once more
InfoFetch_OneMore ==
    /\ rpc = "try" /\ fn = "get_video_info"
    /\ \E ans \in InfoAnswers :
         LET next == CASE ans.kind = "info" -> Returned(ans.value)
                       [] ans.kind = "DownloadError" -> OnDownloadError(ans.value, attempt, max_retries + 1)
                       [] OTHER -> OnException(ans.value, attempt, max_retries + 1)
         IN /\ fetches' = Append(fetches, attempt + 1)
            /\ last_error' = IF ans.kind = "info" THEN last_error ELSE Failure(ans.kind, ans.value)
            /\ IF next = Continue
               THEN /\ attempt' = attempt + 1 /\ rpc' = "loop" /\ UNCHANGED outcome
               ELSE /\ outcome' = next /\ rpc' = "done" /\ UNCHANGED attempt
    /\ UNCHANGED <<fn, max_retries, waits>>
    /\ UNCHANGED <<batchVars, vttVars, tagVars, transcriptVars, commentVars, idVars, csvVars>>

\* one attempt of get_video_info: extract_info, then return, continue or raise
InfoFetch ==
    /\ rpc = "try" /\ fn = "get_video_info"
    /\ \E ans \in InfoAnswers :
         LET next == CASE ans.kind = "info" -> Returned(ans.value)
                       [] ans.kind = "DownloadError" -> OnDownloadError(ans.value, attempt, max_retries)
                       [] OTHER -> OnException(ans.value, attempt, max_retries)
         IN /\ fetches' = Append(fetches, attempt + 1)
            /\ last_error' = IF ans.kind = "info" THEN last_error ELSE Failure(ans.kind, ans.value)
            /\ IF next = Continue
               THEN /\ attempt' = attempt + 1 /\ rpc' = "loop" /\ UNCHANGED outcome
               ELSE /\ outcome' = next /\ rpc' = "done" /\ UNCHANGED attempt
    /\ UNCHANGED <<fn, max_retries, waits>>
    /\ UNCHANGED <<batchVars, vttVars, tagVars, transcriptVars, commentVars, idVars, csvVars>>

\* mutant: every failed download is retried while attempts are left
VttFetch_RetryAll ==
    /\ rpc = "try" /\ fn = "download_subtitle_vtt"
    /\ \E ans \in VttAnswers :
         /\ fetches' = Append(fetches, attempt + 1)
         /\ IF ans.kind = "response" /\ ans.status_code = OkStatus
            THEN /\ vtt_content' = ans.text /\ vpc' = "fetched" /\ rpc' = "parsing"
                 /\ UNCHANGED <<attempt, last_error, outcome>>
            ELSE /\ last_error' = Failure(ans.kind, ans.status_code)
                 /\ UNCHANGED <<vtt_content, vpc>>
                 /\ IF attempt < max_retries - 1
                    THEN /\ attempt' = attempt + 1 /\ rpc' = "loop" /\ UNCHANGED outcome
                    ELSE /\ outcome' = Returned(None) /\ rpc' = "done" /\ UNCHANGED attempt
    /\ UNCHANGED <<fn, max_retries, waits>>
    /\ UNCHANGED <<lines, i, texts, transcript_list, vtt_result, timing_seen>>
    /\ UNCHANGED <<batchVars, tagVars, transcriptVars, commentVars, idVars, csvVars>>

\* one attempt of download_subtitle_vtt: requests.get, then parse, continue or
\* return None
VttFetch ==
    /\ rpc = "try" /\ fn = "download_subtitle_vtt"
    /\ \E ans \in VttAnswers :
         /\ fetches' = Append(fetches, attempt + 1)
         /\ IF ans.kind = "response" /\ ans.status_code # TooManyRequests
                                     /\ ~IsHttpError(ans.status_code)
            THEN /\ vtt_content' = ans.text /\ vpc' = "fetched" /\ rpc' = "parsing"
                 /\ UNCHANGED <<attempt, last_error, outcome>>
            ELSE /\ last_error' = Failure(ans.kind, ans.status_code)
                 /\ UNCHANGED <<vtt_content, vpc>>
                 /\ IF ans.kind = "response" /\ ans.status_code = TooManyRequests
                       /\ attempt < max_retries - 1
                    THEN /\ attempt' = attempt + 1 /\ rpc' = "loop" /\ UNCHANGED outcome
                    ELSE /\ outcome' = Returned(None) /\ rpc' = "done" /\ UNCHANGED attempt
    /\ UNCHANGED <<fn, max_retries, waits>>
    /\ UNCHANGED <<lines, i, texts, transcript_list, vtt_result, timing_seen>>
    /\ UNCHANGED <<batchVars, tagVars, transcriptVars, commentVars, idVars, csvVars>>

\* ---- direct calls of the two functions ----
MaxRetries == 5

\* the default of the max_retries parameter
DefaultMaxRetries == 3

RetryInit ==
    /\ fn \in {"get_video_info", "download_subtitle_vtt"}
    /\ max_retries \in 0..MaxRetries
    /\ attempt = 0 /\ rpc = "loop" /\ waits = <<>> /\ fetches = <<>>
    /\ last_error = None /\ outcome = NoPending
    /\ BatchIdle /\ VttIdle /\ TagIdle /\ TranscriptIdle /\ CommentsIdle /\ IdIdle /\ CsvIdle

RetryNext ==
    \/ BeginAttempt
    \/ LoopEnd
    \/ InfoFetch
    \/ VttFetch
    \/ SplitLines
    \/ TimingLine
    \/ OtherLine
    \/ ReturnParsed

RetrySpec == RetryInit /\ [][RetryNext]_vars

(***************************************************************************)
(* extract_video_data and get_transcript                                   *)
(***************************************************************************)
\* ---- what the environment may answer ----
\* a fetched transcript of youtube-transcript-api
Snippets == <<[text |-> <<"h", "i">>, start |-> 0, duration |-> 1000],
              [text |-> <<"y", "o">>, start |-> 1000, duration |-> 500]>>

\* YOUTUBE_TRANSCRIPT_AVAILABLE and, when it is, what list/find_transcript/fetch do
YtaAnswers ==
    {[kind |-> "unavailable", value |-> None],
     [kind |-> "NoTranscriptFound", value |-> None],
     [kind |-> "Exception", value |-> Some(MsgBot)]}
    \cup {[kind |-> "fetched",
           value |-> Some([language |-> "Korean", language_code |-> "ko",
                           is_generated |-> g, snippets |-> s])] :
             g \in BOOLEAN, s \in {<<>>, Snippets}}

EXT_VTT   == <<"v", "t", "t">>
EXT_JSON3 == <<"j", "s", "o", "n", "3">>

\* entries of info['subtitles'][lang] / info['automatic_captions'][lang]
SubVtt   == [ext |-> EXT_VTT, url |-> "u1"]
SubVtt2  == [ext |-> EXT_VTT, url |-> "u2"]
SubJson3 == [ext |-> EXT_JSON3, url |-> "u3"]

NoSubs == [subtitles |-> <<>>, automatic_captions |-> <<>>]
ManualAndAuto ==
    [subtitles |-> [l \in {"ko"} |-> <<SubJson3, SubVtt>>],
     automatic_captions |-> [l \in {"ko", "en"} |-> <<SubVtt2>>]]
AutoEnglish ==
    [subtitles |-> <<>>, automatic_captions |-> [l \in {"en"} |-> <<SubVtt>>]]

\* ydl.extract_info(video_url, download=False) in get_transcript
YdlAnswers ==
    {[kind |-> "raise", value |-> Msg429]}
    \cup {[kind |-> "info", value |-> v] : v \in {NoSubs, ManualAndAuto, AutoEnglish}}

\* the sleeps before a subtitle download, in milliseconds
ManualDelayMs == 500
AutoDelayMs == 1000

\* the entries of subs whose ext contains 'vtt', in order
RECURSIVE VttEntries(_, _, _, _)
VttEntries(subs, k, lang, generated) ==
    IF k > Len(subs) THEN <<>>
    ELSE (IF Contains(subs[k].ext, EXT_VTT)
          THEN <<[lang |-> lang, is_generated |-> generated, url |-> subs[k].url,
                  delay |-> IF generated THEN AutoDelayMs ELSE ManualDelayMs]>>
          ELSE <<>>) \o VttEntries(subs, k + 1, lang, generated)

\* mutant: the manual subtitles of every language come before any automatic caption
RECURSIVE EntriesOfKind(_, _, _, _)
EntriesOfKind(info, langs, k, generated) ==
    IF k > Len(langs) THEN <<>>
    ELSE LET lang == langs[k]
             subs == IF generated THEN info.automatic_captions ELSE info.subtitles
         IN  (IF lang \in DOMAIN subs
              THEN VttEntries(subs[lang], 1, lang, generated) ELSE <<>>)
             \o EntriesOfKind(info, langs, k + 1, generated)

Candidates_ManualFirst(info, langs, k) ==
    EntriesOfKind(info, langs, k, FALSE) \o EntriesOfKind(info, langs, k, TRUE)

\* the subtitle entries in the order the loops of get_transcript reach them:
\* for each preferred language the manual subtitles, then the automatic captions
RECURSIVE Candidates(_, _, _)
Candidates(info, langs, k) ==
    IF k > Len(langs) THEN <<>>
    ELSE LET lang == langs[k] IN
         (IF lang \in DOMAIN info.subtitles
          THEN VttEntries(info.subtitles[lang], 1, lang, FALSE) ELSE <<>>)
         \o (IF lang \in DOMAIN info.automatic_captions
             THEN VttEntries(info.automatic_captions[lang], 1, lang, TRUE) ELSE <<>>)
         \o Candidates(info, langs, k + 1)

\* the dict get_transcript returns from a fetched youtube-transcript-api transcript
FromYta(t) ==
    [transcript      |-> Some(Join([n \in 1..Len(t.snippets) |-> t.snippets[n].text], <<" ">>)),
     language        |-> Some(t.language),
     language_code   |-> Some(t.language_code),
     is_generated    |-> Some(t.is_generated),
     snippet_count   |-> Some(Len(t.snippets)),
     transcript_list |-> Some(t.snippets)]

\* mutant: is_generated is not set on a downloaded subtitle
FromVtt_NoIsGenerated(result, c) ==
    [transcript      |-> Some(result.transcript),
     snippet_count   |-> Some(result.snippet_count),
     transcript_list |-> Some(result.transcript_list),
     language        |-> Some(c.lang),
     language_code   |-> Some(c.lang)]

\* the result of download_subtitle_vtt with language, language_code and is_generated set
FromVtt(result, c) ==
    [transcript      |-> Some(result.transcript),
     snippet_count   |-> Some(result.snippet_count),
     transcript_list |-> Some(result.transcript_list),
     language        |-> Some(c.lang),
     language_code   |-> Some(c.lang),
     is_generated    |-> Some(c.is_generated)]

\* mutant: the exception of yt-dlp is swallowed without a message
TranscriptError_Silent(msg) ==
    [transcript |-> None, language |-> None, language_code |-> None]

\* {'transcript': None, 'language': None, 'language_code': None, 'error': str(e)}
TranscriptError(msg) ==
    [transcript |-> None, language |-> None, language_code |-> None, error |-> Some(msg)]

\* the retry loop of fn starts with the default max_retries
StartLoop(f) ==
    /\ fn' = f /\ max_retries' = DefaultMaxRetries /\ attempt' = 0 /\ rpc' = "loop"
    /\ waits' = <<>> /\ fetches' = <<>> /\ last_error' = None /\ outcome' = NoPending

\* the call of the loop's function is over and its frame is gone
EndLoop ==
    /\ fn' = "none" /\ max_retries' = 0 /\ attempt' = 0 /\ rpc' = "idle"
    /\ waits' = <<>> /\ fetches' = <<>> /\ last_error' = None /\ outcome' = NoPending

\* video_info = get_video_info(video_url) returned or raised
InfoDone ==
    /\ gpc = "info" /\ fn = "get_video_info" /\ rpc = "done"
    /\ IF outcome.kind = "raise"
       THEN /\ response' = outcome /\ gpc' = "done" /\ UNCHANGED video_info
       ELSE /\ video_info' = Some(outcome.value) /\ gpc' = "transcript" /\ UNCHANGED response
    /\ EndLoop
    /\ UNCHANGED <<req_url, languages, yta, ydl_info, cand, delays, transcript_ret>>
    /\ UNCHANGED <<batchVars, vttVars, tagVars, commentVars, idVars, csvVars>>

\* mutant: a fetched transcript without snippets is not taken as a success
TryYta_FallbackOnEmpty ==
    /\ gpc = "transcript"
    /\ IF yta.kind = "fetched" /\ yta.value[1].snippets # <<>>
       THEN /\ transcript_ret' = Some(FromYta(yta.value[1])) /\ gpc' = "respond"
       ELSE /\ gpc' = "ydl" /\ UNCHANGED transcript_ret
    /\ UNCHANGED <<req_url, languages, yta, ydl_info, video_info, cand, delays, response>>
    /\ UNCHANGED <<batchVars, vttVars, tagVars, retryVars, commentVars, idVars, csvVars>>

\* get_transcript, part 1: youtube-transcript-api
TryYta ==
    /\ gpc = "transcript"
    /\ IF yta.kind = "fetched"
       THEN /\ transcript_ret' = Some(FromYta(yta.value[1])) /\ gpc' = "respond"
       ELSE /\ gpc' = "ydl" /\ UNCHANGED transcript_ret
    /\ UNCHANGED <<req_url, languages, yta, ydl_info, video_info, cand, delays, response>>
    /\ UNCHANGED <<batchVars, vttVars, tagVars, retryVars, commentVars, idVars, csvVars>>

\* mutant: an exception of yt-dlp leaves get_transcript
YdlExtract_Reraise ==
    /\ gpc = "ydl"
    /\ IF ydl_info.kind = "raise"
       THEN /\ response' = Raised([type |-> "DownloadError", status |-> "", msg |-> ydl_info.value])
            /\ gpc' = "done"
       ELSE /\ gpc' = "pick" /\ UNCHANGED response
    /\ UNCHANGED <<req_url, languages, yta, ydl_info, video_info, cand, delays, transcript_ret>>
    /\ UNCHANGED <<batchVars, vttVars, tagVars, retryVars, commentVars, idVars, csvVars>>

\* get_transcript, part 2: yt-dlp's extract_info
YdlExtract ==
    /\ gpc = "ydl"
    /\ IF ydl_info.kind = "raise"
       THEN /\ transcript_ret' = Some(TranscriptError(ydl_info.value)) /\ gpc' = "respond"
       ELSE /\ gpc' = "pick" /\ UNCHANGED transcript_ret
    /\ UNCHANGED <<req_url, languages, yta, ydl_info, video_info, cand, delays, response>>
    /\ UNCHANGED <<batchVars, vttVars, tagVars, retryVars, commentVars, idVars, csvVars>>

\* the next vtt entry: sleep and call download_subtitle_vtt; or none is left
NextCandidate ==
    /\ gpc = "pick"
    /\ LET cs == Candidates(ydl_info.value, languages, 1) IN
       IF cand <= Len(cs)
       THEN /\ delays' = Append(delays, cs[cand].delay)
            /\ StartLoop("download_subtitle_vtt")
            /\ gpc' = "download"
            /\ UNCHANGED transcript_ret
       ELSE /\ transcript_ret' = Some(TDataNone)
            /\ gpc' = "respond"
            /\ UNCHANGED <<delays, retryVars>>
    /\ UNCHANGED <<req_url, languages, yta, ydl_info, video_info, cand, response>>
    /\ UNCHANGED <<batchVars, vttVars, tagVars, commentVars, idVars, csvVars>>

\* what download_subtitle_vtt handed back
DownloadReturned == (rpc = "done") \/ (rpc = "parsing" /\ vpc = "done")
DownloadResult == IF rpc = "done" THEN outcome.value ELSE vtt_result

\* mutant of AfterDownload (see FromVtt_NoIsGenerated)
AfterDownload_NoIsGenerated ==
    /\ gpc = "download" /\ fn = "download_subtitle_vtt" /\ DownloadReturned
    /\ LET cs == Candidates(ydl_info.value, languages, 1) IN
       IF DownloadResult # None
       THEN /\ transcript_ret' = Some(FromVtt_NoIsGenerated(DownloadResult[1], cs[cand]))
            /\ gpc' = "respond" /\ UNCHANGED cand
       ELSE /\ cand' = cand + 1 /\ gpc' = "pick" /\ UNCHANGED transcript_ret
    /\ UNCHANGED <<req_url, languages, yta, ydl_info, video_info, delays, response>>
    /\ UNCHANGED <<batchVars, vttVars, tagVars, retryVars, commentVars, idVars, csvVars>>

\* result = download_subtitle_vtt(sub['url']); if result: ... return result
AfterDownload ==
    /\ gpc = "download" /\ fn = "download_subtitle_vtt" /\ DownloadReturned
    /\ LET cs == Candidates(ydl_info.value, languages, 1) IN
       IF DownloadResult # None
       THEN /\ transcript_ret' = Some(FromVtt(DownloadResult[1], cs[cand]))
            /\ gpc' = "respond" /\ UNCHANGED cand
       ELSE /\ cand' = cand + 1 /\ gpc' = "pick" /\ UNCHANGED transcript_ret
    /\ UNCHANGED <<req_url, languages, yta, ydl_info, video_info, delays, response>>
    /\ UNCHANGED <<batchVars, vttVars, tagVars, retryVars, commentVars, idVars, csvVars>>

\* return VideoResponse(**video_info, transcript=..., error=...)
Respond ==
    /\ gpc = "respond"
    /\ response' = extract_video_data(req_url,
                      [kind |-> "ok", exc |-> None, id |-> video_info[1].video_id,
                       title |-> video_info[1].title, tdata |-> transcript_ret[1]])
    /\ gpc' = "done"
    /\ UNCHANGED <<req_url, languages, yta, ydl_info, video_info, cand, delays, transcript_ret>>
    /\ UNCHANGED <<batchVars, vttVars, tagVars, retryVars, commentVars, idVars, csvVars>>

\* ---- one call of extract_video_data ----
LanguageLists == {<<"ko">>, <<"en", "ko">>}

ExtractInit ==
    /\ req_url = UrlWatch
    /\ languages \in LanguageLists
    /\ yta \in YtaAnswers
    /\ ydl_info \in YdlAnswers
    /\ gpc = "info" /\ video_info = None /\ cand = 1 /\ delays = <<>>
    /\ transcript_ret = None /\ response = NoPending
    /\ fn = "get_video_info" /\ max_retries = DefaultMaxRetries /\ attempt = 0 /\ rpc = "loop"
    /\ waits = <<>> /\ fetches = <<>> /\ last_error = None /\ outcome = NoPending
    /\ BatchIdle /\ VttIdle /\ TagIdle /\ CommentsIdle /\ IdIdle /\ CsvIdle

ExtractNext ==
    \/ BeginAttempt
    \/ InfoFetch
    \/ InfoDone
    \/ TryYta
    \/ YdlExtract
    \/ NextCandidate
    \/ VttFetch
    \/ SplitLines
    \/ TimingLine
    \/ OtherLine
    \/ ReturnParsed
    \/ AfterDownload
    \/ Respond

ExtractSpec == ExtractInit /\ [][ExtractNext]_vars

(***************************************************************************)
(* get_comments                                                            *)
(***************************************************************************)
\* comments as the extractor supplies them (like_count may be missing)
RawLiked   == [author |-> "a", text |-> "first", like_count |-> Some(7)]
RawUnliked == [author |-> "b", text |-> "second", like_count |-> None]
RawComments == {RawLiked, RawUnliked}

\* the dict appended for one comment; comment.get('like_count', 0)
\* (the other fields are copied in the same way and no claim reads them)
CommentEntry(comment) ==
    [author     |-> comment.author,
     text       |-> comment.text,
     like_count |-> IF comment.like_count = None THEN 0 ELSE comment.like_count[1]]

MaxComments == 3

\* info = ydl.extract_info(video_url, download=False): it raises or gives
\* info['comments'] (the extractor is told max_comments and may supply more)
CommentAnswers ==
    {[kind |-> "raise", comments |-> <<>>]}
    \cup {[kind |-> "info", comments |-> cs] :
             cs \in UNION {[1..n -> RawComments] : n \in 0..(MaxComments + 1)}}

\* extract_info; comments = []; if info.get('comments'): ...
CommentsStart ==
    /\ cpc = "call"
    /\ IF supplied.kind = "raise"
       THEN /\ cresult' = Some(Raised(HTTPException("500", "comment extraction failed")))
            /\ cpc' = "done"
       ELSE /\ cpc' = IF supplied.comments # <<>> THEN "loop" ELSE "return"
            /\ UNCHANGED cresult
    /\ comments' = <<>> /\ cidx' = 1
    /\ UNCHANGED <<max_comments, supplied>>
    /\ UNCHANGED <<batchVars, vttVars, tagVars, retryVars, transcriptVars, idVars, csvVars>>

\* one pass of for comment in info['comments']: append, then
\* if len(comments) >= max_comments: break
TakeComment ==
    /\ cpc = "loop"
    /\ comments' = Append(comments, CommentEntry(supplied.comments[cidx]))
    /\ cidx' = cidx + 1
    /\ cpc' = IF Len(comments) + 1 >= max_comments \/ cidx + 1 > Len(supplied.comments)
              THEN "return" ELSE "loop"
    /\ UNCHANGED <<max_comments, supplied, cresult>>
    /\ UNCHANGED <<batchVars, vttVars, tagVars, retryVars, transcriptVars, idVars, csvVars>>

\* return {..., 'comments': comments, 'fetched_count': len(comments)}
CommentsReturn ==
    /\ cpc = "return"
    /\ cresult' = Some(Returned([comments |-> comments, fetched_count |-> Len(comments)]))
    /\ cpc' = "done"
    /\ UNCHANGED <<max_comments, supplied, comments, cidx>>
    /\ UNCHANGED <<batchVars, vttVars, tagVars, retryVars, transcriptVars, idVars, csvVars>>

CommentsInit ==
    /\ max_comments \in 0..MaxComments
    /\ supplied \in CommentAnswers
    /\ comments = <<>> /\ cidx = 1 /\ cpc = "call" /\ cresult = None
    /\ BatchIdle /\ VttIdle /\ TagIdle /\ RetryIdle /\ TranscriptIdle /\ IdIdle /\ CsvIdle

CommentsNext == CommentsStart \/ TakeComment \/ CommentsReturn

CommentsSpec == CommentsInit /\ [][CommentsNext]_vars

(***************************************************************************)
(* extract_video_id on its own                                             *)
(***************************************************************************)
MaxIdPieces == 4

\* the strings are built from these pieces: the two markers, the characters
\* the results are cut at, and parts of a marker
IdPieces == {YOUTU_BE, WATCH_V, <<"?">>, <<"&">>, <<"A">>, <<"watch">>, <<"v=">>}

IdInputs == {Flatten(ps) : ps \in UNION {[1..n -> IdPieces] : n \in 0..MaxIdPieces}}

IdInit ==
    /\ id_in \in IdInputs /\ id_once = <<>> /\ id_twice = <<>> /\ ipc = "call"
    /\ BatchIdle /\ VttIdle /\ TagIdle /\ RetryIdle /\ TranscriptIdle /\ CommentsIdle
    /\ CsvIdle

\* video_id = extract_video_id(url)
ExtractId ==
    /\ ipc = "call"
    /\ id_once' = extract_video_id(id_in)
    /\ ipc' = "again"
    /\ UNCHANGED <<id_in, id_twice>>
    /\ UNCHANGED <<batchVars, vttVars, tagVars, retryVars, transcriptVars, commentVars, csvVars>>

\* extract_video_id(video_id): the function applied to its own result
ExtractIdAgain ==
    /\ ipc = "again"
    /\ id_twice' = extract_video_id(id_once)
    /\ ipc' = "done"
    /\ UNCHANGED <<id_in, id_once>>
    /\ UNCHANGED <<batchVars, vttVars, tagVars, retryVars, transcriptVars, commentVars, csvVars>>

IdNext == ExtractId \/ ExtractIdAgain

IdSpec == IdInit /\ [][IdNext]_vars

(***************************************************************************)
(* The URL column of an uploaded CSV                                       *)
(***************************************************************************)
YOUTUBE_COM == <<"y", "o", "u", "t", "u", "b", "e", ".", "c", "o", "m">>
YOUTU_BE_HOST == <<"y", "o", "u", "t", "u", ".", "b", "e">>
HTTP == <<"h", "t", "t", "p">>
WATCH_PREFIX == <<"h", "t", "t", "p", "s", ":", "/", "/", "w", "w", "w", ".", "y", "o", "u", "t", "u", "b", "e", ".", "c", "o", "m", "/", "w", "a", "t", "c", "h", "?", "v", "=">>

\* len(url) == 11: the length of a video id
VideoIdLength == 11

\* mutant: the first row is read like the others
RowsAfterHeader_None(rows) == rows

\* for row_idx, row in enumerate(csv_reader): if row_idx == 0: continue
RowsAfterHeader(rows) == IF rows = <<>> THEN <<>> ELSE Tail(rows)

\* the url appended for one row, or nothing
UrlOfRow(row) ==
    IF row = <<>> THEN <<>>
    ELSE LET url == Strip(row[1]) IN
         IF url # <<>> /\ (\/ Contains(url, YOUTUBE_COM)
                           \/ Contains(url, YOUTU_BE_HOST)
                           \/ Len(url) = VideoIdLength)
         THEN IF ~MatchAt(url, 1, HTTP) THEN <<WATCH_PREFIX \o url>> ELSE <<url>>
         ELSE <<>>

RECURSIVE UrlsOfRows(_)
UrlsOfRows(rows) ==
    IF rows = <<>> THEN <<>> ELSE UrlOfRow(Head(rows)) \o UrlsOfRows(Tail(rows))

\* the urls list of the two CSV endpoints and of read_urls_from_csv
read_urls_from_csv(rows) == UrlsOfRows(RowsAfterHeader(rows))

\* ---- the rows of the file ----
MaxRows == 3

FieldHeader   == <<"u", "r", "l">>
FieldShort    == <<"h", "t", "t", "p", "s", ":", "/", "/", "y", "o", "u", "t", "u", ".", "b", "e", "/", "x">>
FieldWatch    == <<"h", "t", "t", "p", ":", "/", "/", "y", "o", "u", "t", "u", "b", "e", ".", "c", "o", "m", "/", "w", "a", "t", "c", "h", "?", "v", "=", "x">>
FieldId       == <<" ", "a", "b", "c", "d", "e", "f", "g", "h", "i", "j", "k", " ">>
FieldNoScheme == <<"y", "o", "u", "t", "u", ".", "b", "e", "/", "x">>
FieldOther    == <<"h", "e", "l", "l", "o">>
FieldBlank    == <<" ", " ">>
FieldTwelve   == <<"a", "b", "c", "d", "e", "f", "g", "h", "i", "j", "k", "l">>

CsvFields == {FieldHeader, FieldShort, FieldWatch, FieldId, FieldNoScheme,
              FieldOther, FieldBlank, FieldTwelve}

\* an empty row, rows of one column, and a row whose second column holds a URL
CsvRows == {<<>>} \cup {<<f>> : f \in CsvFields} \cup {<<FieldOther, FieldShort>>}

CsvInit ==
    /\ csv_rows \in UNION {[1..n -> CsvRows] : n \in 0..MaxRows}
    /\ csv_urls = <<>> /\ kpc = "read"
    /\ BatchIdle /\ VttIdle /\ TagIdle /\ RetryIdle /\ TranscriptIdle /\ CommentsIdle
    /\ IdIdle

\* the loop over csv_reader, then the test of an empty list
ReadCsv ==
    /\ kpc = "read"
    /\ csv_urls' = read_urls_from_csv(csv_rows)
    /\ kpc' = IF csv_urls' = <<>> THEN "empty" ELSE "urls"
    /\ UNCHANGED csv_rows
    /\ UNCHANGED <<batchVars, vttVars, tagVars, retryVars, transcriptVars, commentVars, idVars>>

CsvNext == ReadCsv

CsvSpec == CsvInit /\ [][CsvNext]_vars

(***************************************************************************)
(* Claims about the batch loops (Spec)                                     *)
(***************************************************************************)
HandlerEnded == pc \notin {"start", "call", "append", "delay"}
\* the handler answered before its loop started (400, or sys.exit(1))
Refused == status \in {"400", "exit 1"} /\ calls = <<>> /\ results = <<>>

\* C1: in every batch loop, whatever the items do, the results list holds one
\* element per URL once the loop is over, and at every moment the k-th result
\* carries the k-th URL of the list in its url field.
C1_OneResultPerUrlInOrder ==
    /\ Len(results) <= Len(urls)
    /\ \A k \in 1..Len(results) : results[k].url = urls[k]
    /\ pc = "done" => Len(results) = Len(urls)
    /\ HandlerEnded => pc = "done" \/ Refused

\* C1 witness: a finished batch of three different URLs with a failure and a success in it
C1_Witness ==
    /\ pc = "done" /\ Len(urls) = 3 /\ Len(results) = 3
    /\ urls[1] # urls[2] /\ urls[2] # urls[3] /\ urls[1] # urls[3]
    /\ \E j, k \in 1..3 : calls[j].out.kind = "raise" /\ calls[k].out.kind = "return"

\* the record the except clause is said to build for url and exception e
ExpectedPlaceholder(url, e) ==
    [video_id |-> extract_video_id(url), title |-> FailedTitle, url |-> url,
     transcript |-> None, transcript_language |-> None, transcript_language_name |-> None,
     is_generated |-> None, snippet_count |-> None, transcript_list |-> None,
     error |-> Some(PyStr(e))]

\* C2: when extract_video_data raises for item k the loop goes on: result k is
\* the placeholder (original URL, extract_video_id(url), the failure title,
\* str(exception)), and the handler only ends with every URL called and answered.
C2_FailureBecomesPlaceholder ==
    /\ \A k \in 1..Len(results) :
          calls[k].out.kind = "raise"
             => results[k] = ExpectedPlaceholder(urls[k], calls[k].out.value)
    /\ HandlerEnded =>
          \/ Refused
          \/ /\ status \in {"200", "saved"}
             /\ Len(calls) = Len(urls) /\ Len(results) = Len(urls)

\* C2 witness: three inputs, the second raised an HTTPException, the third was still
\* processed and succeeded
C2_Witness ==
    /\ pc = "done" /\ Len(urls) = 3 /\ Len(results) = 3
    /\ calls[2].out.kind = "raise" /\ calls[2].out.value.type = "HTTPException"
    /\ calls[3].out.kind = "return" /\ results[3].error = None
    /\ results[2].title = FailedTitle /\ results[2].url = urls[2]

\* C3: the k-th sleep of a batch follows item k, with k < n; after the loop
\* there are exactly n-1 sleeps; all sleeps of a batch last the same time; and
\* that time is at least the delay of every smaller batch of the same endpoint
\* and one of the finitely many steps of the table.
C3_SleepBetweenItemsOnly ==
    /\ \A k \in 1..Len(sleeps) :
          /\ sleeps[k].after = k
          /\ k < Len(urls)
          /\ sleeps[k].seconds = sleeps[1].seconds
    /\ sleeps # <<>> =>
          /\ sleeps[1].seconds \in {1, 2, 3, 5}
          /\ \A m \in 1..Len(urls) : BatchDelay(endpoint, m) <= sleeps[1].seconds
    /\ pc = "call" => Len(sleeps) = idx - 1
    /\ pc = "done" /\ Len(urls) >= 1 => Len(sleeps) = Len(urls) - 1

\* C3 witness: a finished batch of 100 URLs with its 99 sleeps of the longest step
C3_Witness ==
    /\ pc = "done" /\ Len(urls) = SlowThreshold /\ Len(sleeps) = SlowThreshold - 1
    /\ sleeps[1].seconds = 5

\* the state part of C4
C4_Sequential ==
    /\ \A k \in 1..Len(calls) : calls[k].idx = k /\ calls[k].url = urls[k]
    /\ Len(calls) <= Len(urls)
    /\ Len(results) <= Len(calls) /\ Len(calls) <= Len(results) + 1
    /\ Len(sleeps) <= Len(results) /\ Len(calls) <= Len(sleeps) + 1
    /\ \A k \in 1..Len(results) :
          results[k] = IF calls[k].out.kind = "return"
                       THEN calls[k].out.value
                       ELSE FailurePlaceholder(urls[k], calls[k].out.value)
    /\ pc = "done" => Len(calls) = Len(urls)

\* the step part of C4: a result, once appended, stays as it is
C4_ResultsOnlyGrow ==
    /\ Len(results') >= Len(results)
    /\ \A k \in 1..Len(results) : results'[k] = results[k]
    /\ \A k \in 1..Len(calls) : calls'[k] = calls[k]

\* C4: extract_video_data is called once per URL, in list order; an item's
\* result never changes after it is appended; item k+1 is called only after
\* result k was appended and the k-th sleep was taken.
C4_EachItemOnce == [](C4_Sequential) /\ [][C4_ResultsOnlyGrow]_vars

\* C4 witness: the second item is about to be called, after one result and one sleep
C4_Witness ==
    /\ pc = "call" /\ idx = 2 /\ Len(calls) = 1 /\ Len(results) = 1 /\ Len(sleeps) = 1
    /\ Len(urls) = 3

\* C18: POST /transcript supports batches of up to 200 URLs: every request
\* carrying between 1 and 200 URLs is processed and returns one result per URL.
C18_TranscriptUpTo200 ==
    (endpoint = "transcript" /\ Len(urls) >= 1 /\ Len(urls) <= 200) =>
       /\ pc # "rejected" /\ status # "400"
       /\ HandlerEnded => (pc = "done" /\ status = "200" /\ Len(results) = Len(urls))

\* the delay the inline comments state for a batch of n URLs
CommentedDelay(e, n) ==
    IF e = "csv"
    THEN (IF n >= 100 THEN 3 ELSE IF n >= 50 THEN 2 ELSE 1)
    ELSE (IF n >= 100 THEN 5 ELSE IF n >= 50 THEN 3 ELSE 2)

\* C20: the inter-item delay is 5 s for a batch of 100 or more URLs, 3 s for a
\* batch of 50 or more URLs, and 2 s otherwise (3 s / 2 s / 1 s in POST
\* /transcript/csv); a batch of exactly 50 URLs waits 3 s between items (2 s
\* in POST /transcript/csv).
C20_DelayAsCommented ==
    \A k \in 1..Len(sleeps) : sleeps[k].seconds = CommentedDelay(endpoint, Len(urls))

\* nothing was extracted and nothing was slept
NothingDone == calls = <<>> /\ sleeps = <<>> /\ results = <<>>

C23_AtMost200 ==
    /\ Len(calls) <= 200
    /\ (endpoint \in {"csv", "csv_save"} /\ (urls = <<>> \/ Len(urls) > 200)) =>
          /\ NothingDone
          /\ pc \in {"start", "rejected"}
          /\ pc = "rejected" => status = "400"
    /\ (endpoint = "cli" /\ pc # "start") => Len(urls) <= 200

\* the step of the command line script that settles which URLs are processed
C23_CliKeepsTheFirst200 ==
    (endpoint = "cli" /\ pc = "start" /\ urls # <<>>) =>
       /\ pc' = "call"
       /\ Len(urls') = (IF Len(urls) > 200 THEN 200 ELSE Len(urls))
       /\ \A k \in 1..Len(urls') : urls'[k] = urls[k]

\* C23: no batch ever performs more than 200 extractions: POST /transcript/csv
\* and POST /transcript/csv-save answer 400 and make no extraction call and
\* no sleep when the CSV yields more than 200 valid URLs or none at all, and
\* the command line script processes only the first 200 URLs of the file, in
\* file order.
C23_NeverMoreThan200 == [](C23_AtMost200) /\ [][C23_CliKeepsTheFirst200]_vars

\* a CSV of 201 URLs was refused by POST /transcript/csv-save
C23_Witness ==
    /\ endpoint = "csv_save" /\ Len(urls) = 201
    /\ pc = "rejected" /\ status = "400" /\ NothingDone

\* the command line script went through 200 URLs
C23_WitnessCli ==
    /\ endpoint = "cli" /\ pc = "done" /\ Len(calls) = 200 /\ Len(results) = 200

C25_WitnessRefused ==
    /\ endpoint = "transcript" /\ Len(urls) = 51 /\ pc = "rejected" /\ NothingDone

(***************************************************************************)
(* Claims about the VTT parser (VttSpec)                                   *)
(***************************************************************************)
Parsed == vpc = "done"
Result == vtt_result[1]

\* C5: the example body yields the cues (Hello world, 1.0, 1.5) and (Bye, 2.5, 1.5),
\* the transcript "Hello world Bye" and snippet_count 2.
C5_ExampleBody ==
    Parsed /\ vtt_content = ExampleBody =>
        Result = [transcript      |-> <<"H", "e", "l", "l", "o", " ", "w", "o", "r", "l", "d", " ", "B", "y", "e">>,
                  snippet_count   |-> 2,
                  transcript_list |->
                      <<[text |-> <<"H", "e", "l", "l", "o", " ", "w", "o", "r", "l", "d">>, start |-> 1000, duration |-> 1500],
                        [text |-> <<"B", "y", "e">>, start |-> 2500, duration |-> 1500]>>]

\* C5 witness: the example body has been parsed
C5_Witness == Parsed /\ vtt_content = ExampleBody /\ Result.snippet_count = 2

\* the lines that contain '-->'
TimingLines(ls) == {k \in 1..Len(ls) : Contains(ls[k], ARROW)}
IsBlank(line) == \A p \in 1..Len(line) : line[p] \in Whitespace

\* the text lines right after timing line k: up to the first blank line, the
\* next timing line or the end of the input
FollowingText(ls, k) ==
    {j \in (k + 1)..Len(ls) :
        \A r \in (k + 1)..j : ~IsBlank(ls[r]) /\ r \notin TimingLines(ls)}

\* timing line k is followed by cue text that is not empty
HasCueText(ls, k) ==
    \E j \in FollowingText(ls, k) : remove_vtt_tags(Strip(ls[j])) # <<>>

CueLines(ls) == {k \in TimingLines(ls) : HasCueText(ls, k)}

\* the n-th smallest element of the set of numbers
Nth(set, n) == CHOOSE k \in set : Cardinality({j \in set : j < k}) = n - 1

\* C6: snippet_count is the number of lines with '-->' that are followed by
\* non-empty cue text, every timing line is handled once and in input order,
\* and the n-th cue carries the start time of the n-th such line.
C6_OneCuePerTimingLineWithText ==
    /\ \A n \in 1..Len(timing_seen) :
          /\ timing_seen[n] \in TimingLines(lines)
          /\ n > 1 => timing_seen[n - 1] < timing_seen[n]
    /\ Parsed =>
          /\ {timing_seen[n] : n \in 1..Len(timing_seen)} = TimingLines(lines)
          /\ Result.snippet_count = Cardinality(CueLines(lines))
          /\ Len(Result.transcript_list) = Cardinality(CueLines(lines))
          /\ \A n \in 1..Len(Result.transcript_list) :
                Result.transcript_list[n].start
                    = parse_vtt_time(TimeToken(Strip(lines[Nth(CueLines(lines), n)]), 1))

\* C6 witness: two timing lines, the first directly followed by the second,
\* which has text: one cue, for the second line
C6_Witness ==
    /\ Parsed /\ TimingLines(lines) = {1, 2} /\ CueLines(lines) = {2}
    /\ Result.snippet_count = 1 /\ timing_seen = <<1, 2>>

\* C7: every emitted cue has a duration that is not negative.
C7_DurationNotNegative ==
    \A n \in 1..Len(transcript_list) : transcript_list[n].duration >= 0

\* C8: the transcript is the cue texts of transcript_list joined by single
\* spaces, in list order, and snippet_count is the length of transcript_list.
C8_TranscriptIsJoinedCueTexts ==
    /\ Len(texts) = Len(transcript_list)
    /\ Parsed =>
          /\ Result.transcript =
                Join([n \in 1..Len(Result.transcript_list) |-> Result.transcript_list[n].text],
                     <<" ">>)
          /\ Result.snippet_count = Len(Result.transcript_list)

\* C8 witness: a parsed body with two cues, the first with two text lines
C8_Witness ==
    /\ Parsed /\ Result.snippet_count = 2
    /\ Result.transcript_list[1].text = <<"a", "b", " ", "B", "y", "e">>
    /\ Result.transcript = <<"a", "b", " ", "B", "y", "e", " ", "B", "y", "e">>

\* the least timing line after line k, or one past the last line
NextTiming(ls, k) ==
    IF \E j \in TimingLines(ls) : j > k
    THEN CHOOSE j \in TimingLines(ls) : j > k /\ \A r \in TimingLines(ls) : r > k => j <= r
    ELSE Len(ls) + 1

\* the non-blank lines between timing line k and the next timing line (or the end)
LinesUntilNextTiming(ls, k) ==
    {j \in (k + 1)..(NextTiming(ls, k) - 1) : ~IsBlank(ls[j])}

\* the lines of the set from j on, in input order, without their tags, the
\* empty ones dropped
RECURSIVE StrippedLines(_, _, _)
StrippedLines(ls, set, j) ==
    IF j > Len(ls) THEN <<>>
    ELSE (IF j \in set /\ remove_vtt_tags(Strip(ls[j])) # <<>>
          THEN <<remove_vtt_tags(Strip(ls[j]))>> ELSE <<>>)
         \o StrippedLines(ls, set, j + 1)

\* the cue texts of the body when the text lines of timing line k are
\* LinesUntilNextTiming (untilNext) or FollowingText: one text per timing
\* line that has any, in input order
RECURSIVE CueTextsFrom(_, _, _)
CueTextsFrom(ls, untilNext, k) ==
    IF k > Len(ls) THEN <<>>
    ELSE LET set == IF untilNext THEN LinesUntilNextTiming(ls, k) ELSE FollowingText(ls, k)
             parts == StrippedLines(ls, set, 1)
         IN (IF k \in TimingLines(ls) /\ parts # <<>>
             THEN <<Join(parts, <<" ">>)>> ELSE <<>>)
            \o CueTextsFrom(ls, untilNext, k + 1)

EmittedTexts == [n \in 1..Len(Result.transcript_list) |-> Result.transcript_list[n].text]

\* C10 as claimed: a cue's text is every non-blank, non-timing line up to the
\* next timing line or the end of the input, joined by single spaces; a blank
\* line inside that range does not end the cue.
C10_TextUntilNextTimingLine ==
    Parsed => EmittedTexts = CueTextsFrom(lines, TRUE, 1)

\* C10 as amended: a cue's text is the non-blank, non-timing lines that directly
\* follow its timing line, up to the first blank line, the next timing line or
\* the end of the input, each without its tags and dropped when that leaves it
\* empty, joined by single spaces; a blank line ends the cue.
C10_TextUntilBlankLine ==
    Parsed => EmittedTexts = CueTextsFrom(lines, FALSE, 1)

\* C10 witness: text, a blank line and more text before the next timing line;
\* the first cue holds the text before the blank line only
C10_Witness ==
    /\ Parsed /\ vtt_content = BlankInsideBody
    /\ Result.snippet_count = 2
    /\ Result.transcript_list[1].text = <<"B", "y", "e">>
    /\ CueTextsFrom(lines, TRUE, 1)[1] = <<"B", "y", "e", " ", "a", "b">>

\* the try block of parse_vtt_time runs through for time_str (no exception)
TimestampParses(time_str) ==
    LET parts == Split(time_str, <<":">>) IN
    Len(parts) >= 3 /\ IntOk(parts[1]) /\ IntOk(parts[2]) /\ FloatOk(parts[3])

\* a timing line with a timestamp that fails to parse
Malformed(line) ==
    \/ ~TimestampParses(TimeToken(Strip(line), 1))
    \/ ~TimestampParses(TimeToken(Strip(line), 2))

\* C11: when a timestamp of a timing line fails to parse, both bounds of the
\* cue default to zero: the emitted cue has start 0 and duration 0, even if
\* the other timestamp of the line is well-formed.
C11_BothBoundsZero ==
    Parsed =>
      \A n \in 1..Len(Result.transcript_list) :
         Malformed(lines[Nth(CueLines(lines), n)]) =>
            /\ Result.transcript_list[n].start = 0
            /\ Result.transcript_list[n].duration = 0

\* the timing lines that are well-formed and have cue text
WellFormedCueLines(ls) == {k \in CueLines(ls) : ~Malformed(ls[k])}

\* C12: a malformed timing line is skipped: it produces no cue in
\* transcript_list, and every well-formed cue before and after it in the
\* same body is still emitted (the cues are those of the well-formed timing
\* lines, in order).
C12_MalformedLineSkipped ==
    Parsed =>
      /\ Len(Result.transcript_list) = Cardinality(WellFormedCueLines(lines))
      /\ \A n \in 1..Len(Result.transcript_list) :
            LET k == Nth(WellFormedCueLines(lines), n) IN
            Result.transcript_list[n] =
               MakeCue(Strip(lines[k]),
                       SubtitleText(lines, k + 1, TextEnd(lines, k + 1)))

(***************************************************************************)
(* Claims about remove_vtt_tags (TagSpec)                                  *)
(***************************************************************************)
\* digits ':' digits ':' digits '.' digits, each run of digits non-empty
IsTimestampBody(b) ==
    LET parts == Split(b, <<":">>) IN
    /\ Len(parts) = 3
    /\ parts[1] # <<>> /\ AllDigits(parts[1])
    /\ parts[2] # <<>> /\ AllDigits(parts[2])
    /\ LET sec == Split(parts[3], <<".">>) IN
          /\ Len(sec) = 2
          /\ sec[1] # <<>> /\ AllDigits(sec[1])
          /\ sec[2] # <<>> /\ AllDigits(sec[2])

\* s holds an inline timestamp tag <H:MM:SS.mmm>
HasTimestampTag(s) ==
    \E p, q \in 1..Len(s) :
        p < q /\ s[p] = "<" /\ s[q] = ">" /\ IsTimestampBody(SubSeq(s, p + 1, q - 1))

\* s holds <c>, <c.class> (c followed by anything but '>') or </c>
HasCTag(s) ==
    \E p, q \in 1..Len(s) :
        /\ p < q /\ s[p] = "<" /\ s[q] = ">"
        /\ \A r \in (p + 1)..(q - 1) : s[r] # ">"
        /\ \/ s[p + 1] = "c"
           \/ s[p + 1] = "/" /\ p + 2 < q /\ s[p + 2] = "c"

\* C9: the text remove_vtt_tags returns holds no timestamp tag, no <c> or
\* <c.class> opening tag and no </c> closing tag, also when the removal of an
\* inner tag is what puts such a tag together.
C9_NoTagLeft ==
    tpc = "done" => ~HasTimestampTag(tag_out) /\ ~HasCTag(tag_out)

\* C9 witness: a <c> tag inside a timestamp tag; removing it forms the timestamp
\* tag, which the last pass removes
C9_Witness ==
    /\ tpc = "done"
    /\ tag_in = <<"<", "1", ":", "2", ":", "<", "c", ">", "3", ".", "4", ">">>
    /\ HasTimestampTag(ReSub("c", ReSub("timestamp", tag_in)))
    /\ tag_out = <<>>

(***************************************************************************)
(* Claims about the retry loops (RetrySpec)                                *)
(***************************************************************************)
\* the wait the claim states before attempt N > 1: min(2^(N-1), 10)
ClaimedWait(N) ==
    CASE N = 2 -> 2
      [] N = 3 -> 4
      [] N = 4 -> 8
      [] OTHER -> 10

\* the attempts begun so far in the call
AttemptsBegun == IF rpc = "try" THEN attempt + 1 ELSE Len(fetches)

\* C13: get_video_info and download_subtitle_vtt make at most max_retries
\* fetch attempts per call; there is no wait before attempt 1, and before
\* each attempt N > 1 exactly one sleep of min(2^(N-1), 10) seconds (2 s then
\* 4 s for the default max_retries = 3), so the wait is non-decreasing and
\* never exceeds 10 s.
C13_AttemptsAndBackoff ==
    fn # "none" =>
      /\ Len(fetches) <= max_retries
      /\ \A n \in 1..Len(fetches) : fetches[n] = n
      /\ Len(waits) = (IF AttemptsBegun = 0 THEN 0 ELSE AttemptsBegun - 1)
      /\ \A n \in 1..Len(waits) :
            /\ waits[n] = ClaimedWait(n + 1)
            /\ waits[n] <= 10
            /\ n > 1 => waits[n - 1] <= waits[n]
      /\ (max_retries = DefaultMaxRetries /\ Len(fetches) = max_retries) => waits = <<2, 4>>

C13_Witness ==
    /\ fn = "download_subtitle_vtt" /\ max_retries = 5 /\ rpc = "done"
    /\ fetches = <<1, 2, 3, 4, 5>> /\ waits = <<2, 4, 8, 10>>

\* the failure of the latest fetch is one the claim calls non-retryable
NonRetryable ==
    /\ last_error # None
    /\ LET err == last_error[1] IN
       CASE fn = "get_video_info" /\ err.kind = "DownloadError" ->
              ~AnyKeyword(RateLimitKeywords \cup PlayerKeywords, err.detail)
         [] fn = "get_video_info" -> ~AnyKeyword(BotKeywords, err.detail)
         [] OTHER -> err.detail # 429

\* what the claim says the call ends with after that failure
EndsAsClaimed ==
    LET err == last_error[1] IN
    CASE fn = "get_video_info" /\ err.kind = "DownloadError" ->
           outcome.kind = "raise" /\ outcome.value.status \in {"404", "400"}
      [] fn = "get_video_info" ->
           outcome.kind = "raise" /\ outcome.value.status = "500"
      [] OTHER -> outcome = Returned(None)

C14_EndedAtOnce ==
    (fn # "none" /\ NonRetryable) =>
       /\ rpc = "done"
       /\ EndsAsClaimed
       /\ Len(waits) = Len(fetches) - 1

C14_NothingAfterTheEnd == rpc = "done" => UNCHANGED <<fetches, waits, outcome>>

\* C14: a non-retryable failure ends the call on the attempt where it occurs,
\* with no further attempt and no further sleep: in get_video_info a
\* DownloadError that matches none of the retry keywords (raising 404 or 400)
\* and any other exception without a bot-detection keyword (raising 500); in
\* download_subtitle_vtt any failure other than HTTP status 429, which
\* returns None.
C14_NonRetryableShortCircuits == [](C14_EndedAtOnce) /\ [][C14_NothingAfterTheEnd]_vars

C14_Witness ==
    /\ fn = "get_video_info" /\ max_retries = 3 /\ rpc = "done"
    /\ last_error = Failure("DownloadError", MsgPrivate)
    /\ fetches = <<1, 2>> /\ waits = <<2>>
    /\ outcome.value.status = "400"

\* the call ended because the last of max_retries attempts failed with an
\* error that is retried while attempts are left
Exhausted ==
    /\ fn = "get_video_info" /\ rpc = "done" /\ outcome.kind = "raise"
    /\ max_retries >= 1 /\ Len(fetches) = max_retries
    /\ last_error # None /\ ~NonRetryable

\* the status by the message alone: 403 for 'bot' or 'sign in', 429 for only
\* the other rate-limit keywords, 500 for 'failed to extract' or 'player response'
StatusByMessage(error_msg) ==
    IF AnyKeyword(BlockedKeywords, error_msg) THEN "403"
    ELSE IF AnyKeyword(RateLimitKeywords, error_msg) THEN "429"
    ELSE "500"

\* C15 as stated: when get_video_info exhausts its attempts on retryable
\* errors, the status follows from the message of the final attempt's error
\* only: 403 for 'bot' or 'sign in', 429 for only the other rate-limit
\* keywords, 500 for 'failed to extract' or 'player response'.
C15_StatusByFinalMessage ==
    Exhausted => outcome.value.status = StatusByMessage(last_error[1].detail)

\* the status by the type and the message of the error
StatusByTypeAndMessage(err) ==
    IF err.kind = "DownloadError" THEN StatusByMessage(err.detail) ELSE "403"

\* C15, amended: the status follows from the type and the message of the final
\* attempt's error only: for a DownloadError as stated; for any other
\* exception (retried only for 'bot', 'sign in' or 'cookies') always 403.
C15_StatusByFinalError ==
    Exhausted => outcome.value.status = StatusByTypeAndMessage(last_error[1])

C15_Witness ==
    /\ Exhausted /\ max_retries = 3 /\ waits = <<2, 4>>
    /\ last_error = Failure("Exception", MsgCookies)
    /\ outcome.value.status = "403"

\* the statements after the for loop are executed in this step
AfterTheLoop == rpc = "loop" /\ rpc' = "done"

C27_LoopNeverRunsOut ==
    /\ (rpc = "loop" /\ max_retries >= 1) => attempt < max_retries
    /\ (rpc = "done" /\ max_retries >= 1) =>
          /\ Len(fetches) \in 1..max_retries
          /\ attempt < max_retries
    /\ max_retries = 0 => fetches = <<>> /\ waits = <<>>

C27_AfterTheLoopOnlyWithoutRetries ==
    AfterTheLoop =>
       /\ max_retries = 0 /\ fetches = <<>>
       /\ outcome' = IF fn = "get_video_info"
                     THEN Raised(HTTPException("403", "blocked by bot detection"))
                     ELSE Returned(None)

\* C27: for max_retries >= 1 every call of get_video_info and of
\* download_subtitle_vtt ends inside the retry loop, as the last attempt
\* always returns or raises; the statements after the loop (the final 403 of
\* get_video_info, the final return None of download_subtitle_vtt) execute
\* only for max_retries = 0, and then no fetch attempt is made at all.
C27_PostLoopOnlyForZeroRetries ==
    [](C27_LoopNeverRunsOut) /\ [][C27_AfterTheLoopOnlyWithoutRetries]_vars

\* get_video_info(url, max_retries=0): the final 403 without any fetch
C27_Witness ==
    /\ fn = "get_video_info" /\ max_retries = 0 /\ rpc = "done"
    /\ fetches = <<>> /\ waits = <<>>
    /\ outcome = Raised(HTTPException("403", "blocked by bot detection"))

\* the last of five attempts of download_subtitle_vtt was answered 429
C27_WitnessLastAttempt ==
    /\ fn = "download_subtitle_vtt" /\ max_retries = MaxRetries /\ rpc = "done"
    /\ Len(fetches) = max_retries /\ attempt = max_retries - 1
    /\ last_error = Failure("response", TooManyRequests)
    /\ outcome = Returned(None)

(***************************************************************************)
(* Claims about extract_video_data and get_transcript (ExtractSpec)        *)
(***************************************************************************)
TranscriptFields(rec) ==
    <<rec.transcript, rec.transcript_language, rec.transcript_language_name,
      rec.is_generated, rec.snippet_count, rec.transcript_list>>

AllOrNone(rec) ==
    \/ \A k \in 1..6 : TranscriptFields(rec)[k] = None
    \/ \A k \in 1..6 : TranscriptFields(rec)[k] # None

\* C16: in every VideoResponse produced by extract_video_data or by a batch
\* failure placeholder, the fields transcript, transcript_language,
\* transcript_language_name, is_generated, snippet_count and transcript_list
\* are all None or all non-None, whichever backend produced the transcript
\* and also when the fetched VTT holds no cue.
C16_TranscriptFieldsTogether ==
    gpc = "done" => AllOrNone(BatchItemResult(req_url, response))

\* a VTT without a cue came through the yt-dlp backend
C16_Witness ==
    /\ gpc = "done" /\ response.kind = "return" /\ vpc = "done"
    /\ vtt_content = ZeroCueBody
    /\ response.value.transcript = Some(<<>>)
    /\ response.value.snippet_count = Some(0)
    /\ response.value.transcript_list = Some(<<>>)
    /\ response.value.is_generated = Some(TRUE)

\* no backend produced a transcript
TotalFailure ==
    /\ video_info # None /\ gpc \in {"respond", "done"}
    /\ yta.kind # "fetched"
    /\ \/ ydl_info.kind = "raise"
       \/ cand > Len(Candidates(ydl_info.value, languages, 1))

\* C17: a total failure to obtain a transcript never propagates as an
\* exception: download_subtitle_vtt returns None (never raises) on any fetch
\* failure, get_transcript then returns a record with transcript None, no
\* cues and the error field set, and extract_video_data still returns the
\* video's metadata record.
C17_TranscriptFailureIsNotFatal ==
    /\ fn = "download_subtitle_vtt" =>
          /\ outcome.kind # "raise"
          /\ rpc = "done" => outcome = Returned(None)
    /\ TotalFailure =>
          /\ transcript_ret # None
          /\ transcript_ret[1].transcript = None
          /\ Get(transcript_ret[1], "transcript_list") = None
          /\ Get(transcript_ret[1], "snippet_count") = None
          /\ transcript_ret[1].error # None
    /\ (TotalFailure /\ gpc = "done" /\ video_info[1].title # None) =>
          /\ response.kind = "return"
          /\ response.value.video_id = video_info[1].video_id
          /\ response.value.title = video_info[1].title[1]
          /\ response.value.url = req_url
          /\ response.value.transcript = None
          /\ response.value.transcript_list = None
          /\ response.value.error = transcript_ret[1].error

\* every subtitle download of a video with three vtt entries failed
C17_Witness ==
    /\ gpc = "done" /\ TotalFailure
    /\ ydl_info.value = ManualAndAuto /\ languages = <<"en", "ko">>
    /\ cand = 4 /\ delays = <<1000, 500, 1000>>
    /\ response.kind = "return" /\ response.value.error = TDataNone.error

\* the transcript record of a response, as the first backend alone determines it
RECURSIVE JoinedTexts(_, _)
JoinedTexts(snips, k) ==
    IF k > Len(snips) THEN <<>>
    ELSE IF k = Len(snips) THEN snips[k].text
    ELSE snips[k].text \o <<" ">> \o JoinedTexts(snips, k + 1)

ComesFromYta(rec) ==
    LET t == yta.value[1] IN
    /\ rec.transcript = Some(JoinedTexts(t.snippets, 1))
    /\ rec.transcript_language = Some(t.language_code)
    /\ rec.transcript_language_name = Some(t.language)
    /\ rec.is_generated = Some(t.is_generated)
    /\ rec.snippet_count = Some(Len(t.snippets))
    /\ rec.transcript_list = Some(t.snippets)
    /\ rec.error = None

\* yt-dlp's extract_info, a sleep or a subtitle download of get_transcript
\* is under way or has happened
SecondBackendUsed ==
    \/ gpc \in {"ydl", "pick", "download"}
    \/ delays # <<>>
    \/ (video_info # None /\ fn # "none")
    \/ vpc # "idle"

\* C21: get_transcript tries the backends in a fixed order and the first
\* success wins: the yt-dlp backend is invoked only when the
\* youtube-transcript-api backend is unavailable or raised (whatever the
\* exception); when the first backend succeeds the result comes entirely from
\* it and no yt-dlp call, VTT download or sleep happens.
C21_FirstSuccessWins ==
    /\ SecondBackendUsed => yta.kind \in {"unavailable", "NoTranscriptFound", "Exception"}
    /\ (yta.kind = "fetched" /\ gpc = "done" /\ response.kind = "return") =>
          ComesFromYta(response.value)

\* the first backend fetched a transcript without snippets and that was the answer
C21_Witness ==
    /\ gpc = "done" /\ response.kind = "return"
    /\ yta.kind = "fetched" /\ yta.value[1].snippets = <<>>
    /\ ydl_info.value = ManualAndAuto
    /\ response.value.transcript = Some(<<>>)
    /\ delays = <<>>

\* the VTT tracks yt-dlp listed for the preferred languages: pos is the place
\* of the language in the preference list, auto is 0 for a manual subtitle
\* and 1 for an automatic caption, k the place of the track in its list
TracksListed ==
    LET info == ydl_info.value
        listed(a) == IF a = 0 THEN info.subtitles ELSE info.automatic_captions
    IN  {t \in [pos : 1..Len(languages), auto : {0, 1}, k : 1..2] :
           /\ languages[t.pos] \in DOMAIN listed(t.auto)
           /\ t.k <= Len(listed(t.auto)[languages[t.pos]])
           /\ Contains(listed(t.auto)[languages[t.pos]][t.k].ext, EXT_VTT)}

\* earlier language first; within a language manual before automatic
TriedBefore(s, t) ==
    \/ s.pos < t.pos
    \/ s.pos = t.pos /\ s.auto < t.auto
    \/ s.pos = t.pos /\ s.auto = t.auto /\ s.k < t.k

NthTried(n) ==
    CHOOSE t \in TracksListed : Cardinality({s \in TracksListed : TriedBefore(s, t)}) = n - 1

\* the sleep that precedes the download of a track, in milliseconds
SleepBefore(t) == IF t.auto = 0 THEN 500 ELSE 1000

\* get_transcript returned a downloaded subtitle
ReturnedVtt ==
    /\ gpc \in {"respond", "done"} /\ yta.kind # "fetched"
    /\ transcript_ret # None /\ transcript_ret[1].transcript # None

\* C22: in the yt-dlp fallback of get_transcript the downloads are tried
\* language by language in the caller's order of preference and, within one
\* language, manual subtitles before automatic captions; the first download
\* that succeeds is returned, so the returned language is the earliest
\* preferred one with a successful download, and is_generated is False
\* exactly when the returned track is a manual one.
C22_EarliestLanguageWins ==
    /\ gpc \in {"pick", "download"} =>
          /\ Len(delays) \in {cand - 1, cand}
          /\ gpc = "download" => Len(delays) = cand
          /\ Len(delays) <= Cardinality(TracksListed)
          /\ \A n \in 1..Len(delays) : delays[n] = SleepBefore(NthTried(n))
    /\ ReturnedVtt =>
          /\ Len(delays) = cand
          /\ \A n \in 1..cand : delays[n] = SleepBefore(NthTried(n))
          /\ transcript_ret[1].language_code = Some(languages[NthTried(cand).pos])
          /\ transcript_ret[1].language = Some(languages[NthTried(cand).pos])
          /\ transcript_ret[1].is_generated = Some(NthTried(cand).auto = 1)
          /\ (transcript_ret[1].is_generated = Some(FALSE)) <=> (delays[cand] = 500)

\* the automatic caption of the first language was returned although the
\* second language has a manual subtitle
C22_Witness ==
    /\ gpc = "done" /\ response.kind = "return"
    /\ languages = <<"en", "ko">> /\ ydl_info.value = ManualAndAuto
    /\ yta.kind = "Exception"
    /\ cand = 1 /\ delays = <<1000>>
    /\ response.value.transcript_language = Some("en")
    /\ response.value.is_generated = Some(TRUE)

\* the manual subtitle of the second language was returned after the automatic
\* caption of the first one had failed
C22_WitnessManual ==
    /\ gpc = "done" /\ response.kind = "return"
    /\ languages = <<"en", "ko">> /\ ydl_info.value = ManualAndAuto
    /\ cand = 2 /\ delays = <<1000, 500>>
    /\ response.value.transcript_language = Some("ko")
    /\ response.value.is_generated = Some(FALSE)

\* not r.error: the test of the success count logged after a batch
CountedAsSuccess(r) == r.error = None \/ r.error = Some(<<>>)

\* C26: in every VideoResponse returned by extract_video_data the error field
\* is None if and only if the transcript field is not None; a video whose
\* metadata was extracted but whose transcript could not be obtained is
\* returned as a full metadata record with error set, not as a failure
\* placeholder, so the success count logged after a batch counts only items
\* that have a transcript.
C26_ErrorIffNoTranscript ==
    gpc = "done" =>
       /\ response.kind = "return" =>
             /\ (response.value.error = None) <=> (response.value.transcript # None)
             /\ response.value.video_id = video_info[1].video_id
             /\ response.value.title = video_info[1].title[1]
             /\ response.value.url = req_url
       /\ CountedAsSuccess(BatchItemResult(req_url, response)) =>
             BatchItemResult(req_url, response).transcript # None

\* the metadata was extracted, yt-dlp raised in get_transcript: a metadata
\* record with the error set, which the count leaves out
C26_Witness ==
    /\ gpc = "done" /\ response.kind = "return"
    /\ yta.kind = "NoTranscriptFound" /\ ydl_info.kind = "raise"
    /\ response.value.transcript = None
    /\ response.value.error = Some(ydl_info.value)
    /\ response.value.title # FailedTitle
    /\ ~CountedAsSuccess(response.value)

(***************************************************************************)
(* Claims about get_comments (CommentsSpec)                                *)
(***************************************************************************)
\* C19: get_comments returns at most max_comments comments for every value of
\* max_comments (including 0), in the order the upstream extractor supplied
\* them, and fetched_count always equals the length of the returned list.
C19_AtMostMaxComments ==
    (cpc = "done" /\ cresult[1].kind = "return") =>
       LET r == cresult[1].value IN
       /\ Len(r.comments) <= max_comments
       /\ Len(r.comments) <= Len(supplied.comments)
       /\ \A k \in 1..Len(r.comments) : r.comments[k] = CommentEntry(supplied.comments[k])
       /\ r.fetched_count = Len(r.comments)

(***************************************************************************)
(* Claims about the URL column of a CSV (CsvSpec)                          *)
(***************************************************************************)
\* the stripped first column of the row, the empty string for an empty row
FirstColumn(row) == IF row = <<>> THEN <<>> ELSE Strip(row[1])

\* the row is one the claim says is kept
KeptRow(row) ==
    \/ Contains(FirstColumn(row), <<"y", "o", "u", "t", "u", "b", "e", ".", "c", "o", "m">>)
    \/ Contains(FirstColumn(row), <<"y", "o", "u", "t", "u", ".", "b", "e">>)
    \/ Len(FirstColumn(row)) = 11

\* the numbers of the kept rows after the header, in row order
KeptRowNumbers == {r \in 2..Len(csv_rows) : KeptRow(csv_rows[r])}

\* the number of the row that gave the k-th URL
RowOfUrl(k) ==
    CHOOSE r \in KeptRowNumbers : Cardinality({q \in KeptRowNumbers : q < r}) = k - 1

StartsWithHttp(s) == Len(s) >= 4 /\ SubSeq(s, 1, 4) = <<"h", "t", "t", "p">>

\* C24: CSV URL extraction always skips the first row as a header, even when
\* it holds a valid URL; from the remaining rows it keeps, in row order,
\* exactly those whose stripped first column contains 'youtube.com' or
\* 'youtu.be' or is 11 characters long; and every URL of the resulting list
\* starts with 'http', a value without that prefix being wrapped as
\* https://www.youtube.com/watch?v=<value>.
C24_HeaderSkippedUrlsKept ==
    kpc # "read" =>
       /\ Len(csv_urls) = Cardinality(KeptRowNumbers)
       /\ \A k \in 1..Len(csv_urls) :
             LET value == FirstColumn(csv_rows[RowOfUrl(k)]) IN
             /\ StartsWithHttp(csv_urls[k])
             /\ csv_urls[k] = IF StartsWithHttp(value) THEN value
                              ELSE <<"h", "t", "t", "p", "s", ":", "/", "/", "w", "w", "w", ".", "y", "o", "u", "t", "u", "b", "e", ".", "c", "o", "m", "/", "w", "a", "t", "c", "h", "?", "v", "=">> \o value

\* the header row holds a valid URL and is skipped; the two rows after it are
\* kept in order, the second one wrapped
C24_Witness ==
    /\ kpc = "urls"
    /\ csv_rows = <<<<FieldShort>>, <<FieldWatch>>, <<FieldId>>>>
    /\ csv_urls = <<FieldWatch, <<"h", "t", "t", "p", "s", ":", "/", "/", "w", "w", "w", ".", "y", "o", "u", "t", "u", "b", "e", ".", "c", "o", "m", "/", "w", "a", "t", "c", "h", "?", "v", "=", "a", "b", "c", "d", "e", "f", "g", "h", "i", "j", "k">>>>

(***************************************************************************)
(* Claims about extract_video_id (IdSpec)                                  *)
(***************************************************************************)
HasMarker(s) == Contains(s, WATCH_V) \/ Contains(s, YOUTU_BE)

\* C28: extract_video_id is idempotent and total on strings: for every URL u,
\* extract_video_id(extract_video_id(u)) = extract_video_id(u); its result
\* never contains 'watch?v=' or 'youtu.be/', and a string containing neither
\* marker is returned unchanged.
C28_Idempotent ==
    /\ ipc \in {"again", "done"} =>
          /\ ~HasMarker(id_once)
          /\ ~HasMarker(id_in) => id_once = id_in
    /\ ipc = "done" => id_twice = id_once

\* a youtu.be URL whose query string holds the other marker
C28_Witness ==
    /\ ipc = "done"
    /\ id_in = <<"youtu.be/", "A", "?", "watch", "?", "v=">>
    /\ id_once = <<"A">> /\ id_twice = <<"A">>

====
